---------------------------- MODULE Spec2Model ----------------------------
(***************************************************************************)
(* A model of the MyString library (src/ex3/MyString.c): a heap of         *)
(* exact-fit character blocks, the MyString structs that point into it,    *)
(* and one action per public function.  Bytes are naturals (ASCII codes),  *)
(* pointers are block addresses, 0 is the null pointer.                    *)
(***************************************************************************)
EXTENDS Integers, Sequences, FiniteSets, TLC

\* ------------------------------------------------------------ constants
\* The macros of MyString.h, with the values the tests of MyString.c print.
NULL == 0
END_OF_C_STRING == 0
EMPTY_STRING_LENGTH == 0
MYSTRING_SUCCESS == 0
MYSTRING_ERROR == -1
MYSTR_ERROR_CODE == -999
STR1_BIGGER == 1
STR2_BIGGER == -1
EQUAL_STRINGS == 0

\* --------------------------------------------------------------- bounds
\* Number of heap addresses the allocator can hand out.
NumAddr == 3
\* Number of MyString handles the caller holds.
NumInst == 2
\* Longest C string the caller passes to myStringSetFromCString.
MaxCStr == 2
\* Longest content a concatenation may build.
MaxLen == 2
\* Number of allocator calls on a pointer that is not the struct's to hand
\* over that the run is followed through.
MaxStray == 1
\* Width of int in bits.
IntBits == 8

Addr == 1..NumAddr
Inst == 1..NumInst
\* The characters the caller uses: 'a' and 'b'.
Alphabet == {97, 98}
\* What the stale bytes behind a block may hold: a terminator at once, or
\* one 'b' and then a terminator.
Tails == {<<>>, <<98>>}

RECURSIVE SeqsUpTo(_, _)
SeqsUpTo(S, n) ==
    IF n = 0 THEN {<<>>}
    ELSE LET shorter == SeqsUpTo(S, n - 1)
         IN  shorter \cup {Append(s, x) : s \in {t \in shorter : Len(t) = n - 1}, x \in S}

CStrings == SeqsUpTo(Alphabet, MaxCStr)

VARIABLES
    heap,     \* address -> [live, bytes, tail]: the malloc'ed blocks
    inst,     \* handle -> [alive, chars, length]: the MyString structs
    cstr,     \* the buffer myStringToCString returned and the caller still holds
    running,  \* FALSE once the process has been aborted
    strays,   \* the allocator calls made so far on a pointer not the struct's
    last,     \* the call that was made last: its arguments and result
    arr,      \* the array of handles the caller passes to myStringSort
    made,     \* handle -> the expression over the operands a, b, c it was built as
    game      \* the Nim game: where the program is, its boxes and its players

vars == <<heap, inst, cstr, running, strays, last, arr, made, game>>


\* ------------------------------------------------------------- Nim game
NUMBER_OF_BOXES == 2
PLAYER_ONE == 1
PLAYER_TWO == 2
BOX_ONE == 1
BOX_TWO == 2
MAX_BALL_WITHDRAWAL == 3

\* The largest number of balls the players are followed with.
MaxBalls == 4
\* What a scanf("%d") leaves in its variable: a number read, or whatever the
\* variable held when nothing could be read.
Answers == -1..(MaxBalls + 1)

\* main before initializeGame.  pc is the function the program is in, i the
\* box initializeGame asks for; mover is the player who made the last turn,
\* turns the number of turns made and start the number of balls the game
\* started with.
NewGame ==
    [pc |-> "initializeGame", i |-> 0, numOfBallsArr |-> <<0, 0>>, playerNumber |-> 0,
     boxNumber |-> 0, numOfBalls |-> 0, winner |-> 0, mover |-> 0, turns |-> 0,
     start |-> 0]

\* ----------------------------------------------------------------- heap
\* A block is [live, bytes, tail, stale, owner].  bytes are the bytes the
\* allocator was asked for.  The bytes behind them belong to the allocator:
\* while stale they hold whatever was there before; once the program has
\* written or read them, tail is what they hold up to the first terminator.
\* owner is the struct whose allocator call returned the block, Caller for a
\* block the library's caller is to release.
Caller == NULL - 2
NoBlock == [live |-> FALSE, bytes |-> <<>>, tail |-> <<>>, stale |-> TRUE, owner |-> Caller]

FreeAddr(h) == {a \in DOMAIN h : ~h[a].live}

\* The byte at p[k - 1].  Nothing is read through NULL: a call that would
\* ends the process first (NullRead below).
Mem(h, p, k) ==
    IF p = NULL THEN END_OF_C_STRING
    ELSE LET b == h[p]
         IN  IF k <= Len(b.bytes) THEN b.bytes[k]
             ELSE IF k <= Len(b.bytes) + Len(b.tail) THEN b.tail[k - Len(b.bytes)]
             ELSE END_OF_C_STRING

\* The n bytes a memcpy or memcmp reads from p.
ReadBytes(h, p, n) == [k \in 1..n |-> Mem(h, p, k)]

\* A read that runs behind the last byte of block p finds the stale bytes t there.
Behind(h, p, t) ==
    IF p # NULL /\ h[p].stale THEN [h EXCEPT ![p].tail = t, ![p].stale = FALSE] ELSE h

\* A tail ends at its first terminator.
RECURSIVE CutAtNul(_)
CutAtNul(s) ==
    IF s = <<>> \/ Head(s) = END_OF_C_STRING THEN <<>>
    ELSE <<Head(s)>> \o CutAtNul(Tail(s))

\* *(p + k - 1) = v.  A store behind the block's last byte lands in its tail.
Store(h, p, k, v) ==
    LET b == h[p]
        n == Len(b.bytes)
        j == k - n
        wide == [x \in 1..(IF j > Len(b.tail) THEN j ELSE Len(b.tail)) |->
                    IF x = j THEN v
                    ELSE IF x <= Len(b.tail) THEN b.tail[x] ELSE END_OF_C_STRING]
    IN  IF k <= n THEN [h EXCEPT ![p].bytes[k] = v]
        ELSE [h EXCEPT ![p].tail = CutAtNul(wide), ![p].stale = FALSE]

\* memcpy(p + off, data, Len(data))
RECURSIVE memcpy(_, _, _, _)
memcpy(h, p, off, data) ==
    IF data = <<>> THEN h
    ELSE memcpy(Store(h, p, off + 1, Head(data)), p, off + 1, Tail(data))

\* The allocator is first fit: a new block goes to the lowest free address.
FirstFit(S) == {a \in S : \A b \in S : a <= b}

NewBlock(bytes, who) ==
    [live |-> TRUE, bytes |-> bytes, tail |-> <<>>, stale |-> TRUE, owner |-> who]

\* p is not a pointer the allocator gave to who and has not taken back.
Stray(h, p, who) == p # NULL /\ (~h[p].live \/ h[p].owner # who)

\* malloc(size) for who: the new bytes are not yet written.  No result when
\* the heap has no free address left.
malloc(h, size, who) ==
    { [heap |-> [h EXCEPT ![a] = NewBlock([k \in 1..size |-> END_OF_C_STRING], who)],
       ptr |-> a, abort |-> FALSE, undef |-> FALSE] : a \in FirstFit(FreeAddr(h)) }

\* free(p) by who.  The allocator may leave the released bytes as they are or
\* write its own bookkeeping (zero links) over them.  Releasing a block that
\* is not allocated is undefined: the allocator aborts or carries on.
free(h, p, who) ==
    IF p = NULL THEN {[heap |-> h, abort |-> FALSE, undef |-> FALSE]}
    ELSE IF ~h[p].live
         THEN {[heap |-> h, abort |-> TRUE, undef |-> TRUE],
               [heap |-> h, abort |-> FALSE, undef |-> TRUE]}
    ELSE { [heap |-> [h EXCEPT ![p] = [NoBlock EXCEPT !.bytes = bs]],
            abort |-> FALSE, undef |-> Stray(h, p, who)] :
           bs \in {h[p].bytes, [k \in 1..Len(h[p].bytes) |-> END_OF_C_STRING]} }

Resize(bytes, n) == [k \in 1..n |-> IF k <= Len(bytes) THEN bytes[k] ELSE END_OF_C_STRING]

\* realloc(p, n) by who.  A request for zero bytes either releases p and
\* returns NULL or returns a pointer to a block of no bytes.  Otherwise the
\* block is resized where it is or moved to a free address, its first bytes
\* kept; with no free address left the request may fail, which returns NULL
\* and leaves the block as it is.  Resizing a block that is not allocated is
\* undefined: abort, or carry on as if it were.
realloc(h, p, n, who) ==
    IF p = NULL THEN malloc(h, n, who)
    ELSE
      LET old == h[p].bytes
          u == Stray(h, p, who)
          released == {g \in free(h, p, who) : ~g.abort}
          inPlace == { [heap |-> [h EXCEPT ![p] = NewBlock(Resize(old, n), who)],
                        ptr |-> p, abort |-> FALSE, undef |-> u] }
          moved == UNION { { [heap |-> [f.heap EXCEPT ![a] = NewBlock(Resize(old, n), who)],
                              ptr |-> a, abort |-> FALSE, undef |-> u] :
                             a \in FirstFit(FreeAddr(h) \ {p}) } : f \in released }
          toNull == { [heap |-> f.heap, ptr |-> NULL, abort |-> FALSE, undef |-> u] :
                      f \in released }
          undefined == IF h[p].live THEN {}
                       ELSE {[heap |-> h, ptr |-> p, abort |-> TRUE, undef |-> TRUE]}
          failed == IF n > 0 /\ FreeAddr(h) = {}
                    THEN {[heap |-> h, ptr |-> NULL, abort |-> FALSE, undef |-> u]}
                    ELSE {}
      IN  undefined \cup inPlace \cup (IF n = 0 THEN toNull ELSE moved \cup failed)

\* -------------------------------------------------------------- structs
\* The struct myStringFilter allocates for the filtered copy.
filteredString == NULL - 1
Structs == Inst \cup {filteredString}
NoStruct == [alive |-> FALSE, chars |-> NULL, length |-> 0]

\* A memory m is [heap, inst]; every function below yields the set of results
\* [heap, inst, ret, abort, undef] the call can end with: abort when the
\* allocator stopped the process, undef when the call handed the allocator a
\* pointer that was not the struct's to hand.
Result(h, I, ret) ==
    [heap |-> h, inst |-> I, ret |-> ret, abort |-> FALSE, undef |-> FALSE]
Aborted(m) ==
    [heap |-> m.heap, inst |-> m.inst, ret |-> MYSTRING_ERROR, abort |-> TRUE, undef |-> TRUE]

\* The process ends on a read through a null pointer (a segmentation fault).
Crashed(m) == [Aborted(m) EXCEPT !.undef = FALSE]

\* A read of str's bytes goes through NULL: a failed resize left _chars NULL
\* and _length as it was.
NullRead(I, i) == I[i].chars = NULL /\ I[i].length > EMPTY_STRING_LENGTH

myStringLen(I, i) == I[i].length

\* The bytes of str as its readers (memcpy, memcmp) see them.
Content(h, I, i) ==
    IF I[i].chars = NULL THEN <<>> ELSE ReadBytes(h, I[i].chars, I[i].length)

getCStringLength(h, p) ==
    IF p = NULL THEN 0 ELSE
    CHOOSE n \in 0..(Len(h[p].bytes) + Len(h[p].tail)) :
        /\ Mem(h, p, n + 1) = END_OF_C_STRING
        /\ \A k \in 1..n : Mem(h, p, k) # END_OF_C_STRING

\* adjustMyStringLength asking for one byte more than the length, as for a
\* terminator.
adjustMyStringLength_Slack(m, i, newSize) ==
    { IF r.abort THEN Aborted(m)
      ELSE IF r.ptr = NULL
           THEN [Result(r.heap, [m.inst EXCEPT ![i].chars = NULL], MYSTRING_ERROR)
                    EXCEPT !.undef = r.undef]
      ELSE [Result(r.heap, [m.inst EXCEPT ![i].chars = r.ptr, ![i].length = newSize],
                   MYSTRING_SUCCESS) EXCEPT !.undef = r.undef] :
      r \in realloc(m.heap, m.inst[i].chars, newSize + 1, i) }

\* adjustMyStringLength without its test of realloc's result.
adjustMyStringLength_Unchecked(m, i, newSize) ==
    { IF r.abort THEN Aborted(m)
      ELSE [Result(r.heap, [m.inst EXCEPT ![i].chars = r.ptr, ![i].length = newSize],
                   MYSTRING_SUCCESS) EXCEPT !.undef = r.undef] :
      r \in realloc(m.heap, m.inst[i].chars, newSize, i) }

adjustMyStringLength(m, i, newSize) ==
    { IF r.abort THEN Aborted(m)
      ELSE IF r.ptr = NULL
           THEN [Result(r.heap, [m.inst EXCEPT ![i].chars = NULL], MYSTRING_ERROR)
                    EXCEPT !.undef = r.undef]
      ELSE [Result(r.heap, [m.inst EXCEPT ![i].chars = r.ptr, ![i].length = newSize],
                   MYSTRING_SUCCESS) EXCEPT !.undef = r.undef] :
      r \in realloc(m.heap, m.inst[i].chars, newSize, i) }

\* ret is the new buffer (never NULL here: the allocator has a free address).
emptyStringAlloc(m, i) ==
    { Result(memcpy(o.heap, o.ptr, 0, <<END_OF_C_STRING>>),
             [m.inst EXCEPT ![i].chars = o.ptr, ![i].length = EMPTY_STRING_LENGTH],
             o.ptr) : o \in malloc(m.heap, 1, i) }

myStringAlloc(m, i) ==
    emptyStringAlloc([heap |-> m.heap, inst |-> [m.inst EXCEPT ![i].alive = TRUE]], i)

myStringFree(m, i) ==
    IF i = NULL THEN {Result(m.heap, m.inst, MYSTRING_SUCCESS)} ELSE
    { IF f.abort THEN Aborted(m)
      ELSE [Result(f.heap, [m.inst EXCEPT ![i] = NoStruct], MYSTRING_SUCCESS)
               EXCEPT !.undef = f.undef] :
      f \in free(m.heap, m.inst[i].chars, i) }

\* myStringSetFromMyString testing other only after it has emptied str.
myStringSetFromMyString_LateCheck(m, str, other) ==
    IF str = NULL THEN {Result(m.heap, m.inst, MYSTRING_ERROR)}
    ELSE IF other = NULL
    THEN { [o EXCEPT !.ret = MYSTRING_ERROR] : o \in emptyStringAlloc(m, str) } ELSE
    IF m.inst[other].length = EMPTY_STRING_LENGTH
    THEN { [o EXCEPT !.ret = MYSTRING_SUCCESS] : o \in emptyStringAlloc(m, str) }
    ELSE LET otherStringLength == myStringLen(m.inst, other)
         IN  { IF o.abort \/ o.ret = MYSTRING_ERROR THEN o
               ELSE IF NullRead(o.inst, other) THEN Crashed(m)
               ELSE [o EXCEPT !.heap = memcpy(o.heap, o.inst[str].chars, 0,
                                              ReadBytes(o.heap, o.inst[other].chars,
                                                        otherStringLength))] :
               o \in adjustMyStringLength(m, str, otherStringLength) }

myStringSetFromMyString(m, str, other) ==
    IF str = NULL \/ other = NULL THEN {Result(m.heap, m.inst, MYSTRING_ERROR)} ELSE
    IF m.inst[other].length = EMPTY_STRING_LENGTH
    THEN { [o EXCEPT !.ret = MYSTRING_SUCCESS] : o \in emptyStringAlloc(m, str) }
    ELSE LET otherStringLength == myStringLen(m.inst, other)
         IN  { IF o.abort \/ o.ret = MYSTRING_ERROR THEN o
               ELSE IF NullRead(o.inst, other) THEN Crashed(m)
               ELSE [o EXCEPT !.heap = memcpy(o.heap, o.inst[str].chars, 0,
                                              ReadBytes(o.heap, o.inst[other].chars,
                                                        otherStringLength))] :
               o \in adjustMyStringLength(m, str, otherStringLength) }

\* ret is MYSTRING_SUCCESS when the clone was made (the C function returns it).
myStringClone(m, str, newMyString) ==
    UNION { myStringSetFromMyString(a, newMyString, str) : a \in myStringAlloc(m, newMyString) }

\* cString is the caller's array: the characters and their terminator.
CStringLength(cString) ==
    CHOOSE n \in 0..(Len(cString) - 1) :
        /\ cString[n + 1] = END_OF_C_STRING
        /\ \A k \in 1..n : cString[k] # END_OF_C_STRING

\* The caller's cString is the array it points to; a null pointer points to
\* no array.
NullCString == <<>>

myStringSetFromCString(m, str, cString) ==
    IF str = NULL \/ cString = NullCString THEN {Result(m.heap, m.inst, MYSTRING_ERROR)} ELSE
    LET cStringLength == CStringLength(cString)
        emptied == IF cStringLength = 0 THEN emptyStringAlloc(m, str)
                   ELSE {Result(m.heap, m.inst, MYSTRING_SUCCESS)}
    IN  IF cString[cStringLength + 1] # END_OF_C_STRING
        THEN {Result(m.heap, m.inst, MYSTRING_ERROR)}
        ELSE UNION { { IF o.abort \/ o.ret = MYSTRING_ERROR THEN o
                       ELSE [o EXCEPT !.heap = memcpy(o.heap, o.inst[str].chars, 0,
                                                      SubSeq(cString, 1, cStringLength))] :
                       o \in adjustMyStringLength(e, str, cStringLength) } :
                     e \in emptied }

myStringCat(m, dest, src) ==
    IF dest = NULL \/ src = NULL THEN {Result(m.heap, m.inst, MYSTRING_ERROR)} ELSE
    IF m.inst[src].length = EMPTY_STRING_LENGTH
    THEN {Result(m.heap, m.inst, MYSTRING_SUCCESS)}
    ELSE LET srcLength == myStringLen(m.inst, src)
             destLength == myStringLen(m.inst, dest)
         IN  { IF o.abort \/ o.ret = MYSTRING_ERROR THEN o
               ELSE IF NullRead(o.inst, src) THEN Crashed(m)
               ELSE [o EXCEPT !.heap = memcpy(o.heap, o.inst[dest].chars, destLength,
                                              ReadBytes(o.heap, o.inst[src].chars, srcLength))] :
               o \in adjustMyStringLength(m, dest, srcLength + destLength) }

\* myStringCatTo writing str2 at the start of result instead of behind str1.
myStringCatTo_SecondAtStart(m, str1, str2, result) ==
    IF m.inst[str1].length = EMPTY_STRING_LENGTH /\ m.inst[str2].length = EMPTY_STRING_LENGTH
    THEN { [o EXCEPT !.ret = MYSTRING_SUCCESS] : o \in emptyStringAlloc(m, result) }
    ELSE LET strLength1 == myStringLen(m.inst, str1)
             strLength2 == myStringLen(m.inst, str2)
         IN  { IF o.abort \/ o.ret = MYSTRING_ERROR THEN o
               ELSE IF NullRead(o.inst, str1) \/ NullRead(o.inst, str2) THEN Crashed(m)
               ELSE LET first == memcpy(o.heap, o.inst[result].chars, 0,
                                        ReadBytes(o.heap, o.inst[str1].chars, strLength1))
                    IN  [o EXCEPT !.heap = memcpy(first, o.inst[result].chars, 0,
                                                  ReadBytes(first, o.inst[str2].chars,
                                                            strLength2))] :
               o \in adjustMyStringLength(m, result, strLength1 + strLength2) }

myStringCatTo(m, str1, str2, result) ==
    IF str1 = NULL \/ str2 = NULL \/ result = NULL THEN {Result(m.heap, m.inst, MYSTRING_ERROR)} ELSE
    IF m.inst[str1].length = EMPTY_STRING_LENGTH /\ m.inst[str2].length = EMPTY_STRING_LENGTH
    THEN { [o EXCEPT !.ret = MYSTRING_SUCCESS] : o \in emptyStringAlloc(m, result) }
    ELSE LET strLength1 == myStringLen(m.inst, str1)
             strLength2 == myStringLen(m.inst, str2)
         IN  { IF o.abort \/ o.ret = MYSTRING_ERROR THEN o
               ELSE IF NullRead(o.inst, str1) \/ NullRead(o.inst, str2) THEN Crashed(m)
               ELSE LET first == memcpy(o.heap, o.inst[result].chars, 0,
                                        ReadBytes(o.heap, o.inst[str1].chars, strLength1))
                    IN  [o EXCEPT !.heap = memcpy(first, o.inst[result].chars, strLength1,
                                                  ReadBytes(first, o.inst[str2].chars,
                                                            strLength2))] :
               o \in adjustMyStringLength(m, result, strLength1 + strLength2) }


\* The predicate of the library's own filter test: 'a' < c < 'g'.
filt(c) == 97 < c /\ c < 103

\* The function pointer a caller passes as predicate: NULL or the address of
\* filt.
FiltAddress == 1

\* The loop of getFilteredStringLength over p[i - 1 .. n - 1].
RECURSIVE CountPassing(_, _, _, _)
CountPassing(h, p, i, n) ==
    IF i > n THEN 0
    ELSE (IF filt(Mem(h, p, i)) THEN 1 ELSE 0) + CountPassing(h, p, i + 1, n)

getFilteredStringLength(h, str) == CountPassing(h, str, 1, getCStringLength(h, str))

\* The loop of createFilteredString: i is the next byte read, w the bytes written.
RECURSIVE CopyPassing(_, _, _, _, _, _)
CopyPassing(h, filteredStr, unfilteredStr, i, n, w) ==
    IF i > n THEN h
    ELSE IF filt(Mem(h, unfilteredStr, i))
         THEN CopyPassing(Store(h, filteredStr, w + 1, Mem(h, unfilteredStr, i)),
                          filteredStr, unfilteredStr, i + 1, n, w + 1)
    ELSE CopyPassing(h, filteredStr, unfilteredStr, i + 1, n, w)

createFilteredString(h, filteredStr, unfilteredStr) ==
    CopyPassing(h, filteredStr, unfilteredStr, 1, getCStringLength(h, unfilteredStr), 0)

myStringFilter(m, str, predicate) ==
    IF str = NULL \/ predicate = NULL THEN {Result(m.heap, m.inst, MYSTRING_ERROR)}
    ELSE IF m.inst[str].length = EMPTY_STRING_LENGTH
    THEN {Result(m.heap, m.inst, MYSTRING_SUCCESS)}
    ELSE IF NullRead(m.inst, str) THEN {Crashed(m)}
    ELSE
      LET filteredStringLength == getFilteredStringLength(m.heap, m.inst[str].chars)
          \* the struct is not released on the error return; it is lost to the caller
          lost(o) == [o EXCEPT !.inst[filteredString] = NoStruct]
          replace(o) ==
              LET h == createFilteredString(o.heap, o.inst[filteredString].chars,
                                            o.inst[str].chars)
                  I == [o.inst EXCEPT ![str].chars = o.inst[filteredString].chars,
                                      ![str].length = o.inst[filteredString].length]
              IN  myStringFree([heap |-> h, inst |-> I], filteredString)
      IN  UNION { UNION { IF o.abort \/ o.ret = MYSTRING_ERROR THEN {lost(o)}
                          ELSE replace(o) :
                          o \in adjustMyStringLength(a, filteredString, filteredStringLength) } :
                  a \in myStringAlloc(m, filteredString) }

\* myStringToCString with the terminator stored over the last character.
myStringToCString_TerminatorEarly(m, str) ==
    LET oldLength == myStringLen(m.inst, str)
    IN  IF NullRead(m.inst, str) THEN {Crashed(m)} ELSE
        { Result(Store(memcpy(o.heap, o.ptr, 0, Content(o.heap, m.inst, str)),
                       o.ptr, IF oldLength = 0 THEN 1 ELSE oldLength, END_OF_C_STRING),
                 m.inst, o.ptr) : o \in malloc(m.heap, oldLength + 1, Caller) }

\* ret is the new buffer: the content and a terminator.
myStringToCString(m, str) ==
    LET oldLength == myStringLen(m.inst, str)
    IN  IF NullRead(m.inst, str) THEN {Crashed(m)} ELSE
        { Result(Store(memcpy(o.heap, o.ptr, 0, Content(o.heap, m.inst, str)),
                       o.ptr, oldLength + 1, END_OF_C_STRING),
                 m.inst, o.ptr) : o \in malloc(m.heap, oldLength + 1, Caller) }

\* ------------------------------------------------------------- integers
INT_MIN == -(2 ^ (IntBits - 1))
INT_MAX == 2 ^ (IntBits - 1) - 1
Ints == INT_MIN..INT_MAX
DIGIT_DIVIDER == 10

\* n / d in C: the quotient is truncated towards zero.
Quotient(n, d) == IF n >= 0 THEN n \div d ELSE -((-n) \div d)

\* The while loop of getNumOfDigits.
RECURSIVE CountDigits(_, _)
CountDigits(n, numOfDigits) ==
    IF n = 0 THEN numOfDigits
    ELSE CountDigits(Quotient(n, DIGIT_DIVIDER), numOfDigits + 1)

\* getNumOfDigits counting no character for the minus sign.
getNumOfDigits_NoSign(n) ==
    LET numOfDigits == IF n = 0 THEN 1 ELSE 0
    IN  IF n = 0 THEN numOfDigits ELSE CountDigits(n, numOfDigits)

getNumOfDigits(n) ==
    LET numOfDigits == IF n <= 0 THEN 1 ELSE 0
    IN  IF n = 0 THEN numOfDigits ELSE CountDigits(n, numOfDigits)

\* The characters "%d" produces for a magnitude u, most significant first.
RECURSIVE Digits(_)
Digits(u) ==
    IF u < 10 THEN <<48 + u>> ELSE Digits(u \div 10) \o <<48 + (u % 10)>>

\* sprintf(p, "%d", n): the characters and a terminator are stored from p on;
\* ret is the number of characters.
sprintf(h, p, n) ==
    LET text == IF n < 0 THEN <<45>> \o Digits(-n) ELSE Digits(n)
    IN  [heap |-> memcpy(h, p, 0, text \o <<END_OF_C_STRING>>), ret |-> Len(text)]

myStringSetFromInt(m, str, n) ==
    IF str = NULL THEN {Result(m.heap, m.inst, MYSTRING_ERROR)} ELSE
    LET numOfDigits == getNumOfDigits(n)
    IN  { IF o.abort \/ o.ret = MYSTRING_ERROR THEN o
          ELSE LET w == sprintf(o.heap, o.inst[str].chars, n)
               IN  [o EXCEPT !.heap = w.heap,
                             !.ret = IF w.ret < 0 THEN MYSTRING_ERROR ELSE MYSTRING_SUCCESS] :
          o \in adjustMyStringLength(m, str, numOfDigits) }

\* The characters isspace() accepts.
IsSpace(c) == c \in {32, 9, 10, 11, 12, 13}

\* s without its leading white space.
RECURSIVE SkipSpace(_)
SkipSpace(s) == IF s # <<>> /\ IsSpace(Head(s)) THEN SkipSpace(Tail(s)) ELSE s

\* The value of the decimal digits s starts with, after the value acc of the
\* digits before them, and how many digits were taken.
RECURSIVE TakeDigits(_, _, _)
TakeDigits(s, acc, taken) ==
    IF s = <<>> \/ Head(s) \notin 48..57 THEN [value |-> acc, taken |-> taken]
    ELSE TakeDigits(Tail(s), acc * 10 + (Head(s) - 48), taken + 1)

\* sscanf(p, "%d", &value) on the C string s: ret is the number of
\* conversions, EOF (-1) when the text ends before one was tried.
sscanf(s) ==
    LET t == SkipSpace(s)
        signed == t # <<>> /\ Head(t) \in {43, 45}
        d == TakeDigits(IF signed THEN Tail(t) ELSE t, 0, 0)
    IN  IF t = <<>> THEN [ret |-> -1, value |-> 0]
        ELSE IF d.taken = 0 THEN [ret |-> IF signed /\ Len(t) = 1 THEN -1 ELSE 0, value |-> 0]
        ELSE [ret |-> 1, value |-> IF signed /\ Head(t) = 45 THEN -d.value ELSE d.value]

\* myStringToInt reading one character less than sscanf converts.
myStringToInt_DropsLast(h, I, str) ==
    IF str = NULL THEN MYSTRING_ERROR ELSE
    LET p == I[str].chars
        numberOfDigits == sscanf(ReadBytes(h, p, getCStringLength(h, p) - 1))
    IN  IF numberOfDigits.ret <= 0 THEN MYSTR_ERROR_CODE ELSE numberOfDigits.value

\* sscanf reads the buffer as a C string: up to the first terminator it finds.
myStringToInt(h, I, str) ==
    IF str = NULL THEN MYSTRING_ERROR ELSE
    LET p == I[str].chars
        numberOfDigits == sscanf(ReadBytes(h, p, getCStringLength(h, p)))
    IN  IF numberOfDigits.ret <= 0 THEN MYSTR_ERROR_CODE ELSE numberOfDigits.value

\* ----------------------------------------------------------- comparison
Sign(x) == IF x > 0 THEN 1 ELSE IF x < 0 THEN -1 ELSE 0

\* The first pair of bytes of a and b that differ, as their difference.
RECURSIVE FirstDifference(_, _, _)
FirstDifference(a, b, n) ==
    IF n = 0 THEN 0
    ELSE IF Head(a) # Head(b) THEN Head(a) - Head(b)
    ELSE FirstDifference(Tail(a), Tail(b), n - 1)

\* memcmp(a, b, n): zero, or any value of the sign of the first difference;
\* the difference itself and +-1 stand for the values a C library returns.
memcmp(a, b, n) ==
    LET d == FirstDifference(a, b, n) IN {d, Sign(d)}

\* myStringCompare with > for >= where str1 is the longer string.
myStringCompare_PrefixLoses(m, str1, str2) ==
    LET strLength1 == myStringLen(m.inst, str1)
        strLength2 == myStringLen(m.inst, str2)
        chars1(n) == ReadBytes(m.heap, m.inst[str1].chars, n)
        chars2(n) == ReadBytes(m.heap, m.inst[str2].chars, n)
    IN  IF str1 = NULL \/ str2 = NULL THEN {MYSTR_ERROR_CODE}
        ELSE IF strLength1 > strLength2
        THEN { IF equalUntilLength2 > EQUAL_STRINGS THEN STR1_BIGGER ELSE STR2_BIGGER :
               equalUntilLength2 \in memcmp(chars1(strLength2), chars2(strLength2), strLength2) }
        ELSE IF strLength1 < strLength2
        THEN { IF equalUntilLength1 <= EQUAL_STRINGS THEN STR2_BIGGER ELSE STR1_BIGGER :
               equalUntilLength1 \in memcmp(chars1(strLength1), chars2(strLength1), strLength1) }
        ELSE memcmp(chars1(strLength1), chars2(strLength1), strLength1)

\* myStringCompare with the branch of the shorter str1 testing >= as the
\* branch of the longer str1 does.
myStringCompare_SameTest(m, str1, str2) ==
    LET strLength1 == myStringLen(m.inst, str1)
        strLength2 == myStringLen(m.inst, str2)
        chars1(n) == ReadBytes(m.heap, m.inst[str1].chars, n)
        chars2(n) == ReadBytes(m.heap, m.inst[str2].chars, n)
    IN  IF str1 = NULL \/ str2 = NULL THEN {MYSTR_ERROR_CODE}
        ELSE IF strLength1 > strLength2
        THEN { IF equalUntilLength2 >= EQUAL_STRINGS THEN STR1_BIGGER ELSE STR2_BIGGER :
               equalUntilLength2 \in memcmp(chars1(strLength2), chars2(strLength2), strLength2) }
        ELSE IF strLength1 < strLength2
        THEN { IF equalUntilLength1 >= EQUAL_STRINGS THEN STR1_BIGGER ELSE STR2_BIGGER :
               equalUntilLength1 \in memcmp(chars1(strLength1), chars2(strLength1), strLength1) }
        ELSE memcmp(chars1(strLength1), chars2(strLength1), strLength1)

\* myStringCompare(str1, str2): the values the call can return.
myStringCompare(m, str1, str2) ==
    LET strLength1 == myStringLen(m.inst, str1)
        strLength2 == myStringLen(m.inst, str2)
        chars1(n) == ReadBytes(m.heap, m.inst[str1].chars, n)
        chars2(n) == ReadBytes(m.heap, m.inst[str2].chars, n)
    IN  IF str1 = NULL \/ str2 = NULL THEN {MYSTR_ERROR_CODE}
        ELSE IF strLength1 > strLength2
        THEN { IF equalUntilLength2 >= EQUAL_STRINGS THEN STR1_BIGGER ELSE STR2_BIGGER :
               equalUntilLength2 \in memcmp(chars1(strLength2), chars2(strLength2), strLength2) }
        ELSE IF strLength1 < strLength2
        THEN { IF equalUntilLength1 <= EQUAL_STRINGS THEN STR2_BIGGER ELSE STR1_BIGGER :
               equalUntilLength1 \in memcmp(chars1(strLength1), chars2(strLength1), strLength1) }
        ELSE memcmp(chars1(strLength1), chars2(strLength1), strLength1)

TRUE_ == 1
FALSE_ == 0
myStringEqual(m, str1, str2) ==
    IF str1 = NULL \/ str2 = NULL THEN {MYSTR_ERROR_CODE}
    ELSE { IF areEqual = EQUAL_STRINGS THEN TRUE_ ELSE FALSE_ :
           areEqual \in myStringCompare(m, str1, str2) }

\* The comparator of the library's own tests.
reverseMyStringCompare(m, str1, str2) ==
    IF str1 = NULL \/ str2 = NULL THEN {MYSTR_ERROR_CODE}
    ELSE { IF result = STR1_BIGGER THEN STR2_BIGGER
           ELSE IF result = STR2_BIGGER THEN STR1_BIGGER
           ELSE EQUAL_STRINGS :
           result \in myStringCompare(m, str1, str2) }

\* The function pointer a caller passes as comparator: NULL or the address of
\* reverseMyStringCompare.
ReverseComparator == 1
ComparatorPointers == {NULL, ReverseComparator}

\* myStringCustomCompare that does not ask the comparator.
myStringCustomCompare_LengthOnly(m, str1, str2, comparator) ==
    IF str1 = NULL \/ str2 = NULL \/ comparator = NULL THEN {MYSTR_ERROR_CODE}
    ELSE LET strLength1 == myStringLen(m.inst, str1)
             strLength2 == myStringLen(m.inst, str2)
         IN  {IF strLength1 > strLength2 THEN STR1_BIGGER
              ELSE IF strLength1 < strLength2 THEN STR2_BIGGER
              ELSE EQUAL_STRINGS}

\* The while loop of myStringCustomCompare calls comparator(str1, str2) on
\* the two strings at every index both have, and returns at the first call
\* that is not EQUAL_STRINGS; r is what the calls return.
myStringCustomCompare(m, str1, str2, comparator) ==
    IF str1 = NULL \/ str2 = NULL \/ comparator = NULL THEN {MYSTR_ERROR_CODE}
    ELSE LET strLength1 == myStringLen(m.inst, str1)
             strLength2 == myStringLen(m.inst, str2)
             byLength == IF strLength1 > strLength2 THEN STR1_BIGGER
                         ELSE IF strLength1 < strLength2 THEN STR2_BIGGER
                         ELSE EQUAL_STRINGS
         IN  IF 0 < strLength1 /\ 0 < strLength2
             THEN { IF r > EQUAL_STRINGS THEN STR1_BIGGER
                    ELSE IF r < EQUAL_STRINGS THEN STR2_BIGGER
                    ELSE byLength :
                    r \in reverseMyStringCompare(m, str1, str2) }
             ELSE {byLength}

myStringCustomEqual(m, str1, str2, comparator) ==
    IF str1 = NULL \/ str2 = NULL THEN {MYSTR_ERROR_CODE}
    ELSE { IF areEqual = EQUAL_STRINGS THEN TRUE_ ELSE FALSE_ :
           areEqual \in myStringCustomCompare(m, str1, str2, comparator) }

\* myStringComparator handing its arguments to myStringCompare the other way
\* round.
myStringComparator_Swapped(m, temp1, temp2) == myStringCompare(m, temp2, temp1)

\* myStringComparator(&arr[i], &arr[j]): what qsort calls.
myStringComparator(m, temp1, temp2) == myStringCompare(m, temp1, temp2)

\* qsort(base, nmemb, ...) with myStringComparator: every element is put
\* where the comparator's sign sends it; ties may land on either side.
RECURSIVE InsertSorted(_, _, _, _)
InsertSorted(m, x, sorted, ties) ==
    IF sorted = <<>> THEN <<x>>
    ELSE LET c == CHOOSE r \in myStringComparator(m, x, Head(sorted)) : TRUE
         IN  IF c < 0 \/ (c = 0 /\ ties)
             THEN <<x>> \o sorted
             ELSE <<Head(sorted)>> \o InsertSorted(m, x, Tail(sorted), ties)

RECURSIVE qsort(_, _, _, _)
qsort(m, base, nmemb, ties) ==
    IF nmemb = 0 THEN <<>>
    ELSE InsertSorted(m, base[nmemb], qsort(m, base, nmemb - 1, ties), ties)

\* myStringSort(arr, len): the array afterwards.
myStringSort(m, array, len) ==
    { qsort(m, array, len, ties) \o SubSeq(array, len + 1, Len(array)) :
      ties \in BOOLEAN }

\* The function pointer a caller passes to myStringCustomSort: NULL or the
\* address of myStringCustomComparator.
CustomComparator == 2

\* myStringCustomComparator(&arr[i], &arr[j]): what qsort calls.
myStringCustomComparator(m, temp1, temp2) == reverseMyStringCompare(m, temp1, temp2)

\* qsort(base, nmemb, ...) with myStringCustomComparator: the arrays it may
\* leave.  Each comparison returns one of the comparator's values; an element
\* that compares equal to another may land on either side of it.
RECURSIVE InsertSortedCustom(_, _, _)
InsertSortedCustom(m, x, sorted) ==
    IF sorted = <<>> THEN {<<x>>}
    ELSE LET before == {<<x>> \o sorted}
             after == { <<Head(sorted)>> \o t : t \in InsertSortedCustom(m, x, Tail(sorted)) }
         IN  UNION { IF c < 0 THEN before ELSE IF c = 0 THEN before \cup after ELSE after :
                     c \in myStringCustomComparator(m, x, Head(sorted)) }

RECURSIVE qsortCustom(_, _, _)
qsortCustom(m, base, nmemb) ==
    IF nmemb = 0 THEN {<<>>}
    ELSE UNION { InsertSortedCustom(m, base[nmemb], s) : s \in qsortCustom(m, base, nmemb - 1) }

\* myStringCustomSort(arr, len, comparator): the array afterwards.
myStringCustomSort(m, array, len, comparator) ==
    IF comparator = NULL THEN {array}
    ELSE { s \o SubSeq(array, len + 1, Len(array)) : s \in qsortCustom(m, array, len) }

\* -------------------------------------------------------------- actions
\* Bytes no pointer of the program refers to cannot be observed again: they
\* are dropped from the state (the block stays allocated or free as it was).
Scrub(h, I, c) ==
    [a \in DOMAIN h |-> IF a \in {I[i].chars : i \in DOMAIN I} \cup {c} THEN h[a]
                         ELSE [NoBlock EXCEPT !.live = h[a].live]]

Mem0 == [heap |-> heap, inst |-> inst]

NoCall == [op |-> "none", a |-> 0, b |-> 0, c |-> 0, s |-> <<>>, ret |-> MYSTRING_SUCCESS,
           abort |-> FALSE]

\* The call op(a, b, c, s) ends with result o; c2 is the exported buffer the
\* caller holds afterwards.  An aborted process has no memory left.
Commit(op, a, b, c, s, o, c2) ==
    /\ o.undef => strays < MaxStray
    /\ strays' = IF o.undef THEN strays + 1 ELSE strays
    /\ running' = ~o.abort
    /\ heap' = IF o.abort THEN [x \in DOMAIN heap |-> NoBlock] ELSE Scrub(o.heap, o.inst, c2)
    /\ inst' = IF o.abort THEN [i \in DOMAIN inst |-> NoStruct] ELSE o.inst
    /\ cstr' = IF o.abort THEN NULL ELSE c2
    /\ last' = [op |-> op, a |-> a, b |-> b, c |-> c, s |-> s, ret |-> o.ret,
                abort |-> o.abort]
    /\ UNCHANGED <<arr, game>>

\* The caller makes its next call once it has released the exported buffer.
Ready == running /\ cstr = NULL

\* The caller keeps a new handle in its first unused variable.
Unused(i) == ~inst[i].alive /\ \A j \in Inst : j < i => inst[j].alive

Alloc(i) ==
    /\ Ready /\ Unused(i)
    /\ \E o \in myStringAlloc(Mem0, i) :
           Commit("myStringAlloc", i, 0, 0, <<>>, o, cstr)
    /\ UNCHANGED made

\* The functions that resize the buffer of the instance they change.
Resizers ==
    {"myStringSetFromCString", "myStringSetFromMyString", "myStringSetFromInt",
     "myStringFilter", "myStringCat", "myStringCatTo"}

\* The call was one where realloc gave no buffer.
ResizeFailed(call) ==
    call.op \in Resizers /\ ~call.abort /\ call.ret = MYSTRING_ERROR

\* b records whether the call follows one on i in which the resize failed.
Free(i) ==
    /\ Ready /\ inst[i].alive
    /\ \E o \in myStringFree(Mem0, i) :
           Commit("myStringFree", i,
                  IF ResizeFailed(last)
                        /\ i = (IF last.op = "myStringCatTo" THEN last.c ELSE last.a)
                  THEN 1 ELSE 0,
                  0, <<>>, o, cstr)
    /\ UNCHANGED made

Clone(str, new) ==
    /\ Ready /\ inst[str].alive /\ Unused(new)
    /\ \E o \in myStringClone(Mem0, str, new) :
           Commit("myStringClone", str, new, 0, <<>>, o, cstr)
    /\ UNCHANGED made

SetFromMyString(str, other) ==
    /\ Ready /\ inst[str].alive /\ inst[other].alive /\ str # other
    /\ \E o \in myStringSetFromMyString(Mem0, str, other) :
           Commit("myStringSetFromMyString", str, other, 0, <<>>, o, cstr)
    /\ UNCHANGED made

\* b records that cString points to an array; c records whether str comes
\* straight from myStringAlloc.
SetFromCString(str, s) ==
    /\ Ready /\ inst[str].alive
    /\ \E o \in myStringSetFromCString(Mem0, str, s \o <<END_OF_C_STRING>>) :
           Commit("myStringSetFromCString", str,
                  1, IF last.op = "myStringAlloc" /\ last.a = str THEN 1 ELSE 0, s, o, cstr)
    /\ UNCHANGED made

SetFromInt(str, n) ==
    /\ Ready /\ inst[str].alive
    /\ \E o \in myStringSetFromInt(Mem0, str, n) :
           Commit("myStringSetFromInt", str, n, 0, <<>>, o, cstr)
    /\ UNCHANGED made

Filter(str) ==
    /\ Ready /\ inst[str].alive
    /\ \E t \in Tails :
       LET empty == inst[str].length = EMPTY_STRING_LENGTH
           m == [heap |-> IF empty THEN heap ELSE Behind(heap, inst[str].chars, t),
                 inst |-> inst]
       IN  /\ IF empty THEN t = <<>>
              ELSE getCStringLength(m.heap, inst[str].chars) <= MaxLen
           /\ \E o \in myStringFilter(m, str, FiltAddress) :
                  Commit("myStringFilter", str, FiltAddress, 0, <<>>, o, cstr)
    /\ UNCHANGED made

Cat(dest, src) ==
    /\ Ready /\ inst[dest].alive /\ inst[src].alive /\ dest # src
    /\ inst[dest].length + inst[src].length <= MaxLen
    /\ \E o \in myStringCat(Mem0, dest, src) :
           Commit("myStringCat", dest, src, 0, <<>>, o, cstr)
    /\ UNCHANGED made

CatTo(str1, str2, result) ==
    /\ Ready /\ inst[str1].alive /\ inst[str2].alive /\ inst[result].alive
    /\ result # str1 /\ result # str2
    /\ inst[str1].length + inst[str2].length <= MaxLen
    /\ \E o \in myStringCatTo(Mem0, str1, str2, result) :
           Commit("myStringCatTo", str1, str2, result, <<>>, o, cstr)
    /\ UNCHANGED made

\* b records whether the call follows a successful myStringSetFromCString of
\* str; c and s are then that call's.
ToCString(str) ==
    /\ Ready /\ inst[str].alive
    /\ LET follows == /\ last.op = "myStringSetFromCString" /\ last.a = str
                      /\ last.ret = MYSTRING_SUCCESS /\ ~last.abort
       IN  \E o \in myStringToCString(Mem0, str) :
               Commit("myStringToCString", str, IF follows THEN 1 ELSE 0,
                      IF follows THEN last.c ELSE 0, IF follows THEN last.s ELSE <<>>,
                      o, o.ret)
    /\ UNCHANGED made

\* b records the n of a successful myStringSetFromInt(str, n) the call follows
\* and c whether there was one; s is the content the call found.  sscanf
\* runs behind a buffer that holds no terminator, where the stale bytes may
\* also be a digit.
ToInt(str) ==
    /\ Ready /\ inst[str].alive /\ inst[str].chars # NULL
    /\ \E t \in Tails \cup {<<57>>} :
       LET p == inst[str].chars
           runs == \A k \in DOMAIN heap[p].bytes : heap[p].bytes[k] # END_OF_C_STRING
           h == IF runs THEN Behind(heap, p, t) ELSE heap
           follows == /\ last.op = "myStringSetFromInt" /\ last.a = str
                      /\ last.ret = MYSTRING_SUCCESS /\ ~last.abort
       IN  /\ ~(runs /\ heap[p].stale) => t = <<>>
           /\ heap' = h
           /\ last' = [op |-> "myStringToInt", a |-> str, b |-> IF follows THEN last.b ELSE 0,
                       c |-> IF follows THEN 1 ELSE 0, s |-> Content(heap, inst, str),
                       ret |-> myStringToInt(h, inst, str), abort |-> FALSE]
    /\ UNCHANGED <<inst, cstr, running, strays, arr, made, game>>

\* The caller releases the exported buffer with free().
FreeCString ==
    /\ running /\ cstr # NULL
    /\ \E f \in free(heap, cstr, Caller) :
           Commit("free", 0, 0, 0, <<>>,
                  [heap |-> f.heap, inst |-> inst, ret |-> MYSTRING_SUCCESS,
                   abort |-> f.abort, undef |-> f.undef],
                  NULL)
    /\ UNCHANGED made

Init ==
    /\ heap = [a \in Addr |-> NoBlock]
    /\ inst = [i \in Structs |-> NoStruct]
    /\ cstr = NULL
    /\ running = TRUE
    /\ strays = 0
    /\ last = NoCall
    /\ arr = <<>>
    /\ game = NewGame
    /\ made = <<>>

Next ==
    \/ \E i \in Inst : Alloc(i)
    \/ \E i \in Inst : Free(i)
    \/ \E i, j \in Inst : Clone(i, j)
    \/ \E i, j \in Inst : SetFromMyString(i, j)
    \/ \E i \in Inst, s \in CStrings : SetFromCString(i, s)
    \/ \E i \in Inst : Filter(i)
    \/ \E i, j \in Inst : Cat(i, j)
    \/ \E i, j, k \in Inst : CatTo(i, j, k)
    \/ \E i \in Inst : ToCString(i)
    \/ FreeCString

Spec == Init /\ [][Next]_vars

\* ------------------------------------------------------------- operands
\* The caller's strings a, b, c: what three handles hold after myStringAlloc
\* and myStringSetFromCString of each.
Operands == 1..3
\* Two characters that are not neighbours: memcmp may return their
\* difference, which is not 1 or -1.
Letters == {97, 99}
Contents == SeqsUpTo(Letters, MaxLen)

Holding(ss) ==
    [heap |-> [a \in DOMAIN ss |->
                  NewBlock(IF ss[a] = <<>> THEN <<END_OF_C_STRING>> ELSE ss[a], a)],
     inst |-> [i \in DOMAIN ss \cup {filteredString} |->
                  IF i = filteredString THEN NoStruct
                  ELSE [alive |-> TRUE, chars |-> i, length |-> Len(ss[i])]]]

Apply(op, a, b, ret) == [NoCall EXCEPT !.op = op, !.a = a, !.b = b, !.ret = ret]

\* ----------------------------------------------- comparing three strings
InitCompare ==
    /\ \E ss \in [Operands -> Contents] :
           /\ heap = Holding(ss).heap
           /\ inst = Holding(ss).inst
    /\ cstr = NULL
    /\ running = TRUE
    /\ strays = 0
    /\ last = NoCall
    /\ arr = <<>>
    /\ game = NewGame
    /\ made = <<>>

Compare(str1, str2) ==
    /\ \E r \in myStringCompare(Mem0, str1, str2) :
           last' = Apply("myStringCompare", str1, str2, r)
    /\ UNCHANGED <<heap, inst, cstr, running, strays, arr, made, game>>

Equal(str1, str2) ==
    /\ \E r \in myStringEqual(Mem0, str1, str2) :
           last' = Apply("myStringEqual", str1, str2, r)
    /\ UNCHANGED <<heap, inst, cstr, running, strays, arr, made, game>>

CustomCompare(str1, str2, comparator) ==
    /\ \E r \in myStringCustomCompare(Mem0, str1, str2, comparator) :
           last' = [Apply("myStringCustomCompare", str1, str2, r) EXCEPT !.c = comparator]
    /\ UNCHANGED <<heap, inst, cstr, running, strays, arr, made, game>>

CustomEqual(str1, str2, comparator) ==
    /\ \E r \in myStringCustomEqual(Mem0, str1, str2, comparator) :
           last' = [Apply("myStringCustomEqual", str1, str2, r) EXCEPT !.c = comparator]
    /\ UNCHANGED <<heap, inst, cstr, running, strays, arr, made, game>>

\* The caller passes its three handles or NULL.
Arguments == Operands \cup {NULL}

NextCompare ==
    \/ \E i, j \in Arguments : Compare(i, j)
    \/ \E i, j \in Arguments : Equal(i, j)
    \/ \E i, j \in Arguments, c \in ComparatorPointers : CustomCompare(i, j, c)
    \/ \E i, j \in Arguments, c \in ComparatorPointers : CustomEqual(i, j, c)

SpecCompare == InitCompare /\ [][NextCompare]_vars

\* ------------------------------------------------ sorting three strings
InitSort ==
    /\ \E ss \in [Operands -> Contents] :
           /\ heap = Holding(ss).heap
           /\ inst = Holding(ss).inst
    /\ cstr = NULL
    /\ running = TRUE
    /\ strays = 0
    /\ last = NoCall
    /\ arr \in [Operands -> Operands]
    /\ game = NewGame
    /\ made = <<>>

Sort(len) ==
    /\ \E sorted \in myStringSort(Mem0, arr, len) : arr' = sorted
    /\ last' = Apply("myStringSort", len, 0, MYSTRING_SUCCESS)
    /\ UNCHANGED <<heap, inst, cstr, running, strays, made, game>>

NextSort == \E len \in 0..Len(arr) : Sort(len)

SpecSort == InitSort /\ [][NextSort]_vars

\* a is len and b the comparator passed.
CustomSort(len, comparator) ==
    /\ \E sorted \in myStringCustomSort(Mem0, arr, len, comparator) : arr' = sorted
    /\ last' = Apply("myStringCustomSort", len, comparator, MYSTRING_SUCCESS)
    /\ UNCHANGED <<heap, inst, cstr, running, strays, made, game>>

NextCustomSort ==
    \E len \in 0..Len(arr), comparator \in {NULL, CustomComparator} : CustomSort(len, comparator)

SpecCustomSort == InitSort /\ [][NextCustomSort]_vars

\* ------------------------------------------------- setting from an int
NextInt ==
    \/ Alloc(1)
    \/ \E n \in Ints : SetFromInt(1, n)
    \/ ToInt(1)

SpecInt == Init /\ [][NextInt]_vars

\* ---------------------------------------------------- parsing an int
\* The caller sets a string from a text of signs, the digit 9 and a letter
\* and asks for its value.
MaxText == 4
Texts == SeqsUpTo({43, 45, 57, 97}, MaxText)

NextParse ==
    \/ Alloc(1)
    \/ \E s \in Texts : SetFromCString(1, s)
    \/ ToInt(1)

SpecParse == Init /\ [][NextParse]_vars

\* ------------------------------------------- concatenating three strings
\* The caller builds a.b.c in both groupings out of the operands, in the
\* handles Work, with myStringCat on a copy or with myStringCatTo.
Work == 4..7
\* Longest operand.
MaxOperand == 1

Join(l, r) ==
    CASE l = "a" /\ r = "b" -> "ab"
      [] l = "b" /\ r = "c" -> "bc"
      [] l = "ab" /\ r = "c" -> "(ab)c"
      [] l = "a" /\ r = "bc" -> "a(bc)"
      [] OTHER -> ""

Built(o, l) == IF ~o.abort /\ o.ret = MYSTRING_SUCCESS THEN l ELSE ""

\* What the caller uses each work handle for, and how far a handle has got.
Role(i) ==
    CASE i = 4 -> {"a", "ab", "(ab)c"}
      [] i = 5 -> {"b", "bc"}
      [] i = 6 -> {"a", "a(bc)"}
      [] OTHER -> {"(ab)c"}

Rank(l) ==
    IF l = "" THEN 0
    ELSE IF l \in {"a", "b", "c"} THEN 1
    ELSE IF l \in {"ab", "bc"} THEN 2 ELSE 3

Wanted(i, l) == l \in Role(i) /\ Rank(made[i]) < Rank(l)

InitConcat ==
    /\ \E ss \in [Operands -> SeqsUpTo(Alphabet, MaxOperand)] :
           LET m == Holding([i \in Operands \cup Work |-> IF i \in Operands THEN ss[i] ELSE <<>>])
           IN  /\ heap = [a \in 1..8 |-> IF a \in DOMAIN m.heap THEN m.heap[a] ELSE NoBlock]
               /\ inst = m.inst
    /\ cstr = NULL
    /\ running = TRUE
    /\ strays = 0
    /\ last = NoCall
    /\ arr = <<>>
    /\ game = NewGame
    /\ made = [i \in Operands \cup Work |->
                  IF i = 1 THEN "a" ELSE IF i = 2 THEN "b" ELSE IF i = 3 THEN "c" ELSE ""]

CopyOperand(str, other) ==
    /\ running /\ Wanted(str, made[other])
    /\ \E o \in myStringSetFromMyString(Mem0, str, other) :
           /\ Commit("myStringSetFromMyString", str, other, 0, <<>>, o, cstr)
           /\ made' = [made EXCEPT ![str] = Built(o, made[other])]

CatOperand(dest, src) ==
    /\ running /\ dest # src /\ Wanted(dest, Join(made[dest], made[src]))
    /\ \E o \in myStringCat(Mem0, dest, src) :
           /\ Commit("myStringCat", dest, src, 0, <<>>, o, cstr)
           /\ made' = [made EXCEPT ![dest] = Built(o, Join(made[dest], made[src]))]

CatToOperand(str1, str2, result) ==
    /\ running /\ result # str1 /\ result # str2
    /\ Wanted(result, Join(made[str1], made[str2]))
    /\ \E o \in myStringCatTo(Mem0, str1, str2, result) :
           /\ Commit("myStringCatTo", str1, str2, result, <<>>, o, cstr)
           /\ made' = [made EXCEPT ![result] = Built(o, Join(made[str1], made[str2]))]

NextConcat ==
    \/ \E w \in Work, x \in Operands : CopyOperand(w, x)
    \/ \E w \in Work, x \in Operands \cup Work : CatOperand(w, x)
    \/ \E w \in Work, x, y \in Operands \cup Work : CatToOperand(x, y, w)

SpecConcat == InitConcat /\ [][NextConcat]_vars

\* ------------------------------------------------ unterminated sources
\* The caller passes an array s that holds no terminator.  getCStringLength
\* runs behind the array, which is undefined: it finds stale bytes and then
\* a terminator, or the process ends.  b records that the array had no
\* terminator (2).
SetFromUnterminated(str, s) ==
    /\ Ready /\ inst[str].alive
    /\ \E t \in Tails :
       \E o \in {Aborted(Mem0)} \cup
                { [r EXCEPT !.undef = TRUE] :
                  r \in myStringSetFromCString(Mem0, str, s \o t \o <<END_OF_C_STRING>>) } :
           Commit("myStringSetFromCString", str, 2, 0, s, o, cstr)
    /\ UNCHANGED made

NextSource ==
    \/ \E i \in Inst : Alloc(i)
    \/ \E i \in Inst, s \in CStrings : SetFromCString(i, s)
    \/ \E i \in Inst, s \in CStrings \ {<<>>} : SetFromUnterminated(i, s)

SpecSource == Init /\ [][NextSource]_vars

\* ---------------------------------------------------- absent arguments
\* The caller passes NULL where the library expects a string, an array or a
\* predicate.  a, b and c record the pointers passed, in the order of the
\* parameters (for myStringSetFromInt b is n).
Pointers == Inst \cup {NULL}

Held(i) == IF i = NULL THEN TRUE ELSE inst[i].alive

FreeNull ==
    /\ Ready
    /\ \E o \in myStringFree(Mem0, NULL) :
           Commit("myStringFree", NULL, 0, 0, <<>>, o, cstr)
    /\ UNCHANGED made

SetFromMyStringNull(str, other) ==
    /\ Ready /\ Held(str) /\ Held(other) /\ NULL \in {str, other}
    /\ \E o \in myStringSetFromMyString(Mem0, str, other) :
           Commit("myStringSetFromMyString", str, other, 0, <<>>, o, cstr)
    /\ UNCHANGED made

\* s is the caller's array, or NullCString.
SetFromCStringNull(str, s) ==
    /\ Ready /\ Held(str) /\ (IF str = NULL THEN TRUE ELSE s = NullCString)
    /\ \E o \in myStringSetFromCString(Mem0, str, s) :
           Commit("myStringSetFromCString", str,
                  IF s = NullCString THEN NULL ELSE 1, 0, <<>>, o, cstr)
    /\ UNCHANGED made

SetFromIntNull(n) ==
    /\ Ready
    /\ \E o \in myStringSetFromInt(Mem0, NULL, n) :
           Commit("myStringSetFromInt", NULL, n, 0, <<>>, o, cstr)
    /\ UNCHANGED made

FilterNull(str, predicate) ==
    /\ Ready /\ Held(str) /\ NULL \in {str, predicate}
    /\ \E o \in myStringFilter(Mem0, str, predicate) :
           Commit("myStringFilter", str, predicate, 0, <<>>, o, cstr)
    /\ UNCHANGED made

CatNull(dest, src) ==
    /\ Ready /\ Held(dest) /\ Held(src) /\ NULL \in {dest, src}
    /\ \E o \in myStringCat(Mem0, dest, src) :
           Commit("myStringCat", dest, src, 0, <<>>, o, cstr)
    /\ UNCHANGED made

CatToNull(str1, str2, result) ==
    /\ Ready /\ Held(str1) /\ Held(str2) /\ Held(result)
    /\ NULL \in {str1, str2, result}
    /\ \E o \in myStringCatTo(Mem0, str1, str2, result) :
           Commit("myStringCatTo", str1, str2, result, <<>>, o, cstr)
    /\ UNCHANGED made

NextNull ==
    \/ \E i \in Inst : Alloc(i)
    \/ \E i \in Inst, s \in CStrings : SetFromCString(i, s)
    \/ FreeNull
    \/ \E i, j \in Pointers : SetFromMyStringNull(i, j)
    \/ \E i \in Pointers, s \in {NullCString, <<97, END_OF_C_STRING>>} :
           SetFromCStringNull(i, s)
    \/ \E n \in {0, 7} : SetFromIntNull(n)
    \/ \E i \in Pointers, f \in {NULL, FiltAddress} : FilterNull(i, f)
    \/ \E i, j \in Pointers : CatNull(i, j)
    \/ \E i, j, k \in Pointers : CatToNull(i, j, k)

SpecNull == Init /\ [][NextNull]_vars

\* ------------------------------------------------------ playing Nim
\* The while condition of playGame.
BoxesHoldBalls(numOfBallsArr) ==
    numOfBallsArr[BOX_ONE] # 0 /\ numOfBallsArr[BOX_TWO] # 0

\* The answer chooseBox returns: its do-while asks again for any other.
chooseBox(boxNumber) == ~(boxNumber < BOX_ONE \/ boxNumber > BOX_TWO)

\* takeBalls returning any answer from 1 to 3, whatever the box holds.
takeBalls_IgnoresBox(numOfBallsArr, boxNumber, numOfBalls) ==
    ~(numOfBalls <= 0 \/ numOfBalls > MAX_BALL_WITHDRAWAL)

\* takeBalls returning also the answer 0.
takeBalls_TakesNone(numOfBallsArr, boxNumber, numOfBalls) ==
    ~(numOfBalls < 0 \/ numOfBalls > MAX_BALL_WITHDRAWAL
        \/ numOfBalls > numOfBallsArr[boxNumber])

\* The answer takeBalls returns: its while loop asks again for any other.
takeBalls(numOfBallsArr, boxNumber, numOfBalls) ==
    ~(numOfBalls <= 0 \/ numOfBalls > MAX_BALL_WITHDRAWAL
        \/ numOfBalls > numOfBallsArr[boxNumber])

\* playGame leaving the turn with the player who has just moved.
NextPlayer_Same(playerNumber) == playerNumber

\* The player playGame advances to after a turn.
NextPlayer(playerNumber) == IF playerNumber = PLAYER_ONE THEN PLAYER_TWO ELSE PLAYER_ONE

\* initializeGame reads the number of balls of box i + 1.
InitializeGame(n) ==
    /\ game.pc = "initializeGame"
    /\ LET read == [game EXCEPT !.numOfBallsArr[game.i + 1] = n]
       IN  game' = IF n <= 0 THEN [read EXCEPT !.pc = "exit"]
                   ELSE IF game.i + 1 < NUMBER_OF_BOXES THEN [read EXCEPT !.i = game.i + 1]
                   ELSE [read EXCEPT !.pc = "playGame", !.playerNumber = PLAYER_ONE,
                                     !.start = read.numOfBallsArr[BOX_ONE]
                                                 + read.numOfBallsArr[BOX_TWO]]
    /\ UNCHANGED <<heap, inst, cstr, running, strays, last, arr, made>>

\* playGame tests its while condition: another turn, or the winner.
PlayGame ==
    /\ game.pc = "playGame"
    /\ game' = IF BoxesHoldBalls(game.numOfBallsArr) THEN [game EXCEPT !.pc = "chooseBox"]
               ELSE [game EXCEPT !.pc = "done", !.winner = game.playerNumber]
    /\ UNCHANGED <<heap, inst, cstr, running, strays, last, arr, made>>

\* chooseBox reads an answer.
ChooseBox(b) ==
    /\ game.pc = "chooseBox"
    /\ game' = [game EXCEPT !.boxNumber = b,
                            !.pc = IF chooseBox(b) THEN "takeBalls" ELSE "chooseBox"]
    /\ UNCHANGED <<heap, inst, cstr, running, strays, last, arr, made>>

\* takeBalls reads an answer; with the answer it returns makeTurn takes the
\* balls out of the box and playGame advances to the next player.
TakeBalls(k) ==
    /\ game.pc = "takeBalls"
    /\ game' = IF takeBalls(game.numOfBallsArr, game.boxNumber, k)
               THEN [game EXCEPT !.numOfBalls = k,
                                 !.numOfBallsArr[game.boxNumber] = @ - k,
                                 !.playerNumber = NextPlayer(game.playerNumber),
                                 !.mover = game.playerNumber,
                                 !.turns = game.turns + 1,
                                 !.pc = "playGame"]
               ELSE [game EXCEPT !.numOfBalls = k]
    /\ UNCHANGED <<heap, inst, cstr, running, strays, last, arr, made>>

NextNim ==
    \/ \E n \in Answers : InitializeGame(n)
    \/ PlayGame
    \/ \E b \in Answers : ChooseBox(b)
    \/ \E k \in Answers : TakeBalls(k)

SpecNim == Init /\ [][NextNim]_vars

\* Every prompt is answered, and in the end with an answer the function
\* returns.
SpecNimAnswered ==
    /\ SpecNim
    /\ WF_vars(\E n \in Answers : InitializeGame(n))
    /\ WF_vars(PlayGame)
    /\ WF_vars(\E b \in Answers : chooseBox(b) /\ ChooseBox(b))
    /\ WF_vars(\E k \in Answers :
                  /\ game.pc = "takeBalls"
                  /\ takeBalls(game.numOfBallsArr, game.boxNumber, k)
                  /\ TakeBalls(k))

\* ------------------------------------------------- reading the buffer
\* The caller sets a string and has it filtered or parsed.
NextReads ==
    \/ Alloc(1)
    \/ \E s \in CStrings \cup {<<57>>, <<97, 57>>} : SetFromCString(1, s)
    \/ Filter(1)
    \/ ToInt(1)

SpecReads == Init /\ [][NextReads]_vars

\* ------------------------------------------------------------ lifetimes
\* The call reported success: a handle or buffer from the functions that
\* return one, MYSTRING_SUCCESS from the others.
ReportsSuccess(call) ==
    /\ ~call.abort
    /\ IF call.op \in {"myStringAlloc", "myStringToCString"} THEN call.ret # NULL
       ELSE call.ret = MYSTRING_SUCCESS

\* The caller goes on only after operations that report success, and
\* releases what it holds with myStringFree and free.
NextLifetime ==
    \/ \E i \in Inst : Alloc(i) /\ ReportsSuccess(last')
    \/ \E i, j \in Inst : Clone(i, j) /\ ReportsSuccess(last')
    \/ \E i, j \in Inst : SetFromMyString(i, j) /\ ReportsSuccess(last')
    \/ \E i \in Inst, s \in CStrings : SetFromCString(i, s) /\ ReportsSuccess(last')
    \/ \E i \in Inst : Filter(i) /\ ReportsSuccess(last')
    \/ \E i, j \in Inst : Cat(i, j) /\ ReportsSuccess(last')
    \/ \E i, j, k \in Inst : CatTo(i, j, k) /\ ReportsSuccess(last')
    \/ \E i \in Inst : ToCString(i) /\ ReportsSuccess(last')
    \/ \E i \in Inst : Free(i)
    \/ FreeCString

SpecLifetime == Init /\ [][NextLifetime]_vars

\* --------------------------------------------------------------- claims
\* The text in the buffer the caller holds, up to its terminator.
Exported == ReadBytes(heap, cstr, getCStringLength(heap, cstr))

\* C1: when myStringToCString(str) follows a successful
\* myStringSetFromCString(str, s), the buffer it returns holds the bytes of s
\* and then a terminator, inside its block, and str's length is the number of
\* bytes of s.
C1_RoundTrip ==
    (last.op = "myStringToCString" /\ last.b = 1 /\ ~last.abort /\ last.ret # NULL)
        => /\ cstr = last.ret
           /\ Exported = last.s
           /\ heap[cstr].live /\ Len(heap[cstr].bytes) = Len(last.s) + 1
           /\ myStringLen(inst, last.a) = Len(last.s)

\* C1 on a fresh instance set from "ab".
C1_Witness ==
    /\ last.op = "myStringToCString" /\ last.b = 1 /\ last.c = 1
    /\ last.s = <<97, 98>>
    /\ cstr # NULL /\ Exported = <<97, 98>>

\* str holds a buffer the allocator gave it and has not taken back.
Owns(h, I, str) == I[str].alive /\ I[str].chars # NULL /\ ~Stray(h, I[str].chars, str)

\* A call of op that returned MYSTRING_SUCCESS.
Succeeded(call, op) == call.op = op /\ ~call.abort /\ call.ret = MYSTRING_SUCCESS

\* The functions that change their first argument.
Mutators ==
    {"myStringSetFromCString", "myStringSetFromMyString", "myStringFilter", "myStringCat"}

\* C2: after a successful myStringClone(a) the clone c is equal to a under
\* myStringEqual and has a buffer of its own, and a call of a mutator (set,
\* filter, concatenate) on one instance leaves the bytes and the length of
\* every other instance as they were.
C2_CloneIsDeepCopy ==
    [][ /\ Succeeded(last', "myStringClone") =>
              /\ myStringEqual([heap |-> heap', inst |-> inst'], last'.a, last'.b) = {TRUE_}
              /\ inst'[last'.a].chars # inst'[last'.b].chars
        /\ \A x, y \in Inst :
              (x # y /\ last'.op \in Mutators /\ last'.a = x /\ ~last'.abort /\ inst[y].alive)
                  => /\ Content(heap', inst', y) = Content(heap, inst, y)
                     /\ myStringLen(inst', y) = myStringLen(inst, y) ]_vars

\* The reference order on byte strings: the first differing byte among the
\* first min(Len(x), Len(y)) decides; without one, the longer string is bigger.
ByteOrder(x, y) ==
    LET n == IF Len(x) < Len(y) THEN Len(x) ELSE Len(y)
        D == {k \in 1..n : x[k] # y[k]}
    IN  IF D # {}
        THEN LET k == CHOOSE d \in D : \A e \in D : d <= e
             IN  IF x[k] > y[k] THEN 1 ELSE -1
        ELSE IF Len(x) > Len(y) THEN 1 ELSE IF Len(x) < Len(y) THEN -1 ELSE 0

\* C3: the sign of what myStringCompare(a, b) returned is the reference
\* byte-lexicographic order of the contents of a and b.
C3_CompareSign ==
    (last.op = "myStringCompare" /\ last.a # NULL /\ last.b # NULL)
        => Sign(last.ret) = ByteOrder(Content(heap, inst, last.a), Content(heap, inst, last.b))

\* C3 for a non-empty string compared with an empty one.
C3_Witness ==
    /\ last.op = "myStringCompare" /\ last.ret > 0
    /\ Content(heap, inst, last.a) = <<97>> /\ Content(heap, inst, last.b) = <<>>

\* C4: on any three strings myStringCompare is reflexive (compare(a, a) is
\* zero), antisymmetric (compare(a, b) and compare(b, a) have opposite signs
\* or are both zero) and transitive (compare(a, b) <= 0 and compare(b, c) <= 0
\* imply compare(a, c) <= 0).
C4_TotalOrder ==
    \A a, b, c \in Operands :
        /\ myStringCompare(Mem0, a, a) = {EQUAL_STRINGS}
        /\ \A ab \in myStringCompare(Mem0, a, b), ba \in myStringCompare(Mem0, b, a) :
               Sign(ab) = -Sign(ba)
        /\ \A ab \in myStringCompare(Mem0, a, b), bc \in myStringCompare(Mem0, b, c),
              ac \in myStringCompare(Mem0, a, c) :
               (ab <= 0 /\ bc <= 0) => ac <= 0

\* C4 where one string is a prefix of another: "a" < "ac" < "c", compared.
C4_Witness ==
    /\ Content(heap, inst, 1) = <<97>> /\ Content(heap, inst, 2) = <<97, 99>>
    /\ Content(heap, inst, 3) = <<99>>
    /\ last.op = "myStringCompare" /\ last.a = 1 /\ last.b = 2 /\ last.ret < 0

\* What myStringCat(dest, src) is to have done in a step that made the call.
CatAppended(dest, src) ==
    /\ Succeeded(last', "myStringCat") =>
          /\ Content(heap', inst', dest)
                 = Content(heap, inst, dest) \o Content(heap, inst, src)
          /\ myStringLen(inst', dest)
                 = myStringLen(inst, dest) + myStringLen(inst, src)
          /\ Content(heap', inst', src) = Content(heap, inst, src)
          /\ myStringLen(inst', src) = myStringLen(inst, src)
    /\ myStringLen(inst, src) = EMPTY_STRING_LENGTH =>
          /\ Succeeded(last', "myStringCat")
          /\ inst'[dest] = inst[dest]
          /\ Content(heap', inst', dest) = Content(heap, inst, dest)

\* C5: a call myStringCat(dest, src) on distinct instances, when it returns
\* MYSTRING_SUCCESS, leaves in dest its previous content followed by src's
\* content, with the sum of the lengths as length, and leaves src as it was;
\* with an empty src the call returns MYSTRING_SUCCESS and dest is as it was.
C5_CatAppends ==
    [][ \A dest, src \in Inst :
          (last'.op = "myStringCat" /\ last'.a = dest /\ last'.b = src)
              => CatAppended(dest, src) ]_vars

\* The statement of C5 for instances that hold buffers of their own, which
\* myStringCat meets.
C5_CatAppendsOwned ==
    [][ \A dest, src \in Inst :
          (/\ last'.op = "myStringCat" /\ last'.a = dest /\ last'.b = src
           /\ Owns(heap, inst, dest) /\ Owns(heap, inst, src))
              => CatAppended(dest, src) ]_vars

\* C5's case: a successful myStringCat whose src had been filtered.
C5_Witness ==
    /\ Succeeded(last, "myStringCat")
    /\ Owns(heap, inst, last.a) /\ ~Owns(heap, inst, last.b)

\* What myStringCatTo(str1, str2, result) is to have done in a step where it
\* succeeded.
CatToJoined(str1, str2, result) ==
    /\ Content(heap', inst', result) = Content(heap, inst, str1) \o Content(heap, inst, str2)
    /\ myStringLen(inst', result) = myStringLen(inst, str1) + myStringLen(inst, str2)
    /\ Content(heap', inst', str1) = Content(heap, inst, str1)
    /\ myStringLen(inst', str1) = myStringLen(inst, str1)
    /\ Content(heap', inst', str2) = Content(heap, inst, str2)
    /\ myStringLen(inst', str2) = myStringLen(inst, str2)
    /\ (myStringLen(inst, str1) = EMPTY_STRING_LENGTH
            /\ myStringLen(inst, str2) = EMPTY_STRING_LENGTH)
          => /\ myStringLen(inst', result) = EMPTY_STRING_LENGTH
             /\ Mem(heap', inst'[result].chars, 1) = END_OF_C_STRING

\* C6: after a successful myStringCatTo(str1, str2, result) with result
\* distinct from str1 and str2, result holds str1's bytes followed by str2's,
\* its length is the sum of theirs, whatever it held before, and str1 and
\* str2 are as they were; with both sources empty result is the empty string.
C6_CatToJoins ==
    [][ \A str1, str2, result \in DOMAIN inst :
          (/\ Succeeded(last', "myStringCatTo")
           /\ last'.a = str1 /\ last'.b = str2 /\ last'.c = result)
              => CatToJoined(str1, str2, result) ]_vars

\* The statement of C6 for sources that hold buffers of their own, which
\* myStringCatTo meets.
C6_CatToJoinsOwned ==
    [][ \A str1, str2, result \in DOMAIN inst :
          (/\ Succeeded(last', "myStringCatTo")
           /\ last'.a = str1 /\ last'.b = str2 /\ last'.c = result
           /\ Owns(heap, inst, str1) /\ Owns(heap, inst, str2) /\ Owns(heap, inst, result))
              => CatToJoined(str1, str2, result) ]_vars

\* C6's case: a successful myStringCatTo whose source had been filtered.
C6_Witness ==
    /\ Succeeded(last, "myStringCatTo")
    /\ ~Owns(heap, inst, last.a) /\ Owns(heap, inst, last.c)


\* C7: whichever of myStringCat and myStringCatTo built them, a handle that
\* holds (a.b).c and a handle that holds a.(b.c) have the same bytes and the
\* same length, for all operands a, b, c, the empty ones included.
C7_Associative ==
    \A i, j \in DOMAIN made :
        (made[i] = "(ab)c" /\ made[j] = "a(bc)")
            => /\ Content(heap, inst, i) = Content(heap, inst, j)
               /\ myStringLen(inst, i) = myStringLen(inst, j)

\* C7 for "a", "b", "b": a.(b.c) made by myStringCatTo while (a.b).c is there.
C7_Witness ==
    /\ Succeeded(last, "myStringCatTo")
    /\ made[last.c] = "a(bc)"
    /\ \E i \in Work : made[i] = "(ab)c" /\ Content(heap, inst, i) = <<97, 98, 98>>
    /\ Content(heap, inst, last.c) = <<97, 98, 98>>


\* The characters of s that filt accepts, in their order.
Passing(s) == SelectSeq(s, filt)

\* C8: after a successful myStringFilter(str, filt) the content of str is the
\* subsequence of its previous characters that filt accepts, in their order,
\* and its length is their number; an empty str is left as it was, with
\* success.
C8_FilterKeepsPassing ==
    [][ \A str \in Inst :
          (last'.op = "myStringFilter" /\ last'.a = str) =>
              /\ Succeeded(last', "myStringFilter") =>
                    /\ Content(heap', inst', str) = Passing(Content(heap, inst, str))
                    /\ myStringLen(inst', str) = Len(Passing(Content(heap, inst, str)))
              /\ myStringLen(inst, str) = EMPTY_STRING_LENGTH =>
                    /\ Succeeded(last', "myStringFilter")
                    /\ inst'[str] = inst[str]
                    /\ Content(heap', inst', str) = Content(heap, inst, str) ]_vars

\* C8's case: a successful myStringFilter that kept a character.
C8_Witness ==
    /\ Succeeded(last, "myStringFilter")
    /\ myStringLen(inst, last.a) > EMPTY_STRING_LENGTH


\* t holds the elements of s, each as often as s does.
IsPermutation(s, t) ==
    /\ Len(s) = Len(t)
    /\ \A x \in {s[i] : i \in DOMAIN s} \cup {t[i] : i \in DOMAIN t} :
           Cardinality({i \in DOMAIN s : s[i] = x}) = Cardinality({i \in DOMAIN t : t[i] = x})

\* C9: after myStringSort(arr, len) arr holds a permutation of the handles it
\* held, no instance has changed, and for all i < j among the len sorted
\* elements myStringCompare(arr[i], arr[j]) <= 0; the elements behind them
\* stay where they were.
C9_SortAscending ==
    [][ last'.op = "myStringSort" =>
          /\ IsPermutation(arr, arr')
          /\ IsPermutation(SubSeq(arr, 1, last'.a), SubSeq(arr', 1, last'.a))
          /\ \A k \in (last'.a + 1)..Len(arr) : arr'[k] = arr[k]
          /\ heap' = heap /\ inst' = inst
          /\ \A i, j \in 1..last'.a :
                 i < j => \A r \in myStringCompare([heap |-> heap', inst |-> inst'],
                                                   arr'[i], arr'[j]) : r <= 0 ]_vars

\* C9 for an array of three handles that hold "a", "ac", "c" after the sort.
C9_Witness ==
    /\ last.op = "myStringSort" /\ last.a = 3
    /\ arr = <<3, 1, 2>>
    /\ Content(heap, inst, 1) = <<97, 99>>
    /\ Content(heap, inst, 2) = <<99>>
    /\ Content(heap, inst, 3) = <<97>>


\* The number a sequence of decimal digit characters denotes.
RECURSIVE Denotes(_)
Denotes(ds) ==
    IF ds = <<>> THEN 0 ELSE 10 * Denotes(SubSeq(ds, 1, Len(ds) - 1)) + (ds[Len(ds)] - 48)

\* text is the base-10 text of n: a '-' exactly when n is negative, then the
\* digits of n's magnitude, "0" for zero and no leading zero otherwise.
IsBase10Of(text, n) ==
    /\ text # <<>>
    /\ (text[1] = 45) <=> (n < 0)
    /\ LET ds == IF text[1] = 45 THEN Tail(text) ELSE text
       IN  /\ ds # <<>>
           /\ \A k \in DOMAIN ds : ds[k] \in 48..57
           /\ Len(ds) > 1 => ds[1] # 48
           /\ Denotes(ds) = (IF n < 0 THEN -n ELSE n)

\* C10: after a successful myStringSetFromInt(str, n) the content of str is
\* the base-10 text of n and its length is getNumOfDigits(n), the number of
\* characters of that text, for every int n.
C10_SetFromIntText ==
    Succeeded(last, "myStringSetFromInt") =>
        /\ IsBase10Of(Content(heap, inst, last.a), last.b)
        /\ myStringLen(inst, last.a) = getNumOfDigits(last.b)
        /\ Len(Content(heap, inst, last.a)) = getNumOfDigits(last.b)

\* C10 for the most negative int.
C10_Witness ==
    /\ Succeeded(last, "myStringSetFromInt")
    /\ last.b = INT_MIN
    /\ Content(heap, inst, last.a)[1] = 45
    /\ myStringLen(inst, last.a) = Len(Digits(-INT_MIN)) + 1


\* C11: myStringToInt on an instance just set by a successful
\* myStringSetFromInt(str, n) returns n, for every int n.
C11_IntRoundTrip ==
    (last.op = "myStringToInt" /\ last.c = 1) => last.ret = last.b

\* C11 for the most negative int.
C11_Witness ==
    /\ last.op = "myStringToInt" /\ last.c = 1
    /\ last.b = INT_MIN /\ last.ret = INT_MIN /\ last.s[1] = 45


\* Invariant I1 of the library: a live instance has a buffer.
I1 == \A i \in Inst : inst[i].alive => inst[i].chars # NULL

\* C12: I1 holds at the start, and a public operation that reports success
\* keeps it, the instances of length 0 included; so it holds after every
\* sequence of operations that all report success.
C12_BufferNonNull ==
    [][ (I1 /\ ReportsSuccess(last')) => I1' ]_vars

\* C12's case: an instance just set to the empty string, successfully.
C12_Witness ==
    /\ Succeeded(last, "myStringSetFromCString") /\ last.s = <<>>
    /\ inst[last.a].alive /\ myStringLen(inst, last.a) = EMPTY_STRING_LENGTH
    /\ inst[last.a].chars # NULL


\* The instance a call builds or changes.
Target(call) ==
    IF call.op = "myStringClone" THEN call.b
    ELSE IF call.op = "myStringCatTo" THEN call.c ELSE call.a

\* myStringAlloc, myStringClone and the mutators.
Builders ==
    {"myStringAlloc", "myStringClone", "myStringSetFromCString", "myStringSetFromMyString",
     "myStringSetFromInt", "myStringFilter", "myStringCat", "myStringCatTo"}

\* The size of the block in i's buffer.
BlockSize(h, I, i) == Len(h[I[i].chars].bytes)

\* The block in i's buffer has exactly length bytes.
ExactFit(h, I, i) == I[i].chars # NULL /\ BlockSize(h, I, i) = myStringLen(I, i)

\* The same, but an instance of length 0 may hold the one byte that
\* emptyStringAlloc gives it.
ExactFitOrEmpty(h, I, i) ==
    /\ I[i].chars # NULL
    /\ \/ BlockSize(h, I, i) = myStringLen(I, i)
       \/ myStringLen(I, i) = EMPTY_STRING_LENGTH /\ BlockSize(h, I, i) = 1

\* The length the call is to leave, where the call's record tells it.
LengthAsSet(call, I) ==
    /\ call.op = "myStringSetFromCString" => myStringLen(I, call.a) = Len(call.s)
    /\ call.op = "myStringAlloc" => myStringLen(I, call.a) = EMPTY_STRING_LENGTH

C14_AbsentInputs ==
    /\ (/\ last.op \in {"myStringCompare", "myStringCustomCompare",
                        "myStringEqual", "myStringCustomEqual"}
        /\ (last.a = NULL \/ last.b = NULL))
           => last.ret = MYSTR_ERROR_CODE
    /\ (/\ last.op \in {"myStringCustomCompare", "myStringCustomEqual"}
        /\ last.a # NULL /\ last.b # NULL /\ last.c = NULL)
           => last.ret = MYSTR_ERROR_CODE

\* C14's case: myStringCustomEqual of two strings with no comparator.
C14_Witness ==
    /\ last.op = "myStringCustomEqual"
    /\ last.a # NULL /\ last.b # NULL /\ last.c = NULL

\* The call l passed NULL for a string, an array or a predicate.
AbsentArgument(l) ==
    \/ /\ l.op \in {"myStringSetFromMyString", "myStringSetFromCString",
                    "myStringFilter", "myStringCat"}
       /\ NULL \in {l.a, l.b}
    \/ l.op = "myStringSetFromInt" /\ l.a = NULL
    \/ l.op = "myStringCatTo" /\ NULL \in {l.a, l.b, l.c}

\* C15: a mutator called with NULL for an instance, a source or a predicate
\* returns MYSTRING_ERROR, and neither it nor myStringFree(NULL) changes the
\* heap, an instance or the exported buffer, or stops the program.
C15_AbsentArgumentNoEffect ==
    [][ (AbsentArgument(last') \/ (last'.op = "myStringFree" /\ last'.a = NULL))
            => /\ AbsentArgument(last') => last'.ret = MYSTRING_ERROR
               /\ ~last'.abort /\ running'
               /\ heap' = heap /\ inst' = inst /\ cstr' = cstr ]_vars

\* C15 where a string holding "ab" was passed as destination with no source.
C15_Witness ==
    /\ last.op = "myStringSetFromMyString" /\ last.b = NULL /\ last.a # NULL
    /\ last.ret = MYSTRING_ERROR
    /\ Content(heap, inst, last.a) = <<97, 98>>

\* The buffer of i is one free() accepts: none, or a block i was given and
\* still has.
Releasable(h, I, i) == ~Stray(h, I[i].chars, i)

\* C16: a mutator in which realloc gives no buffer returns MYSTRING_ERROR, and
\* a myStringFree of the instance that follows releases no block that is not
\* allocated to the instance: the program goes on and no stray release
\* happens.
C16_FailedStaysReleasable ==
    [][ /\ \A i \in Inst :
              (/\ last'.op \in Resizers \ {"myStringFilter"} /\ ~last'.abort
               /\ Target(last') = i /\ inst[i].chars # NULL /\ inst'[i].chars = NULL)
                  => last'.ret = MYSTRING_ERROR
        /\ (last'.op = "myStringFree" /\ last'.b = 1)
              => (~last'.abort /\ strays' = strays) ]_vars

\* The statement of C16 for an instance that holds a buffer of its own when
\* the mutator is called: the failed call leaves it with a buffer free()
\* accepts, and myStringFree of such an instance releases nothing else.
C16_FailedStaysReleasableOwned ==
    [][ \A i \in Inst :
          /\ (ResizeFailed(last') /\ Target(last') = i /\ Releasable(heap, inst, i))
                => Releasable(heap', inst', i)
          /\ (last'.op = "myStringFree" /\ last'.a = i /\ Releasable(heap, inst, i))
                => (~last'.abort /\ strays' = strays) ]_vars

\* C16's case: an instance released after a mutator on it had failed.
C16_Witness ==
    last.op = "myStringFree" /\ last.b = 1 /\ ~last.abort

\* The last call was myStringSetFromCString(str, "") on a live instance.
SetFromEmpty ==
    last.op = "myStringSetFromCString" /\ last.a # NULL /\ last.b # NULL /\ last.s = <<>>

\* str is an empty string with a buffer that is an allocated block.
EmptyWithBuffer(str) ==
    /\ myStringLen(inst, str) = EMPTY_STRING_LENGTH
    /\ inst[str].chars # NULL /\ heap[inst[str].chars].live

\* C17: myStringSetFromCString(str, "") on a live instance returns
\* MYSTRING_SUCCESS and leaves str with length 0 and an allocated buffer,
\* whether realloc answers the resize to no bytes with NULL or with a pointer.
C17_EmptySetSucceeds ==
    SetFromEmpty => (~last.abort /\ last.ret = MYSTRING_SUCCESS /\ EmptyWithBuffer(last.a))

\* The statement of C17 where realloc answered with a pointer, which
\* myStringSetFromCString meets.
C17_EmptySetSucceedsWithPointer ==
    (SetFromEmpty /\ ~last.abort /\ inst[last.a].chars # NULL)
        => (last.ret = MYSTRING_SUCCESS /\ EmptyWithBuffer(last.a))

\* C17's case: the empty string set, with success, on an instance that did
\* not come straight from myStringAlloc.
C17_Witness ==
    /\ SetFromEmpty /\ last.c = 0 /\ last.ret = MYSTRING_SUCCESS
    /\ EmptyWithBuffer(last.a)

\* s is a decimal integer: digits after at most one sign.
IsDecimal(s) ==
    LET digits == IF s # <<>> /\ Head(s) \in {43, 45} THEN Tail(s) ELSE s
    IN  digits # <<>> /\ \A k \in DOMAIN digits : digits[k] \in 48..57

\* s starts with a decimal integer.
StartsDecimal(s) == \E k \in 1..Len(s) : IsDecimal(SubSeq(s, 1, k))

\* The integer the decimal integer s writes.
DecimalValue(s) ==
    IF Head(s) = 45 THEN -Denotes(Tail(s))
    ELSE IF Head(s) = 43 THEN Denotes(Tail(s)) ELSE Denotes(s)

\* C18: myStringToInt(str) returns MYSTR_ERROR_CODE exactly when the content
\* of str does not start with a decimal integer (digits after at most one
\* sign), and for a content that is a decimal integer it returns the value
\* that integer writes, which is then not MYSTR_ERROR_CODE.
C18_SentinelExact ==
    last.op = "myStringToInt"
        => /\ (last.ret = MYSTR_ERROR_CODE) <=> ~StartsDecimal(last.s)
           /\ IsDecimal(last.s) => last.ret = DecimalValue(last.s)

\* The statement of C18 for contents other than "-999" where the text sscanf
\* read is the content, which myStringToInt meets.
C18_SentinelExactInContent ==
    (/\ last.op = "myStringToInt"
     /\ last.s # <<45, 57, 57, 57>>
     /\ LET p == inst[last.a].chars
        IN  ReadBytes(heap, p, getCStringLength(heap, p)) = last.s)
        => /\ (last.ret = MYSTR_ERROR_CODE) <=> ~StartsDecimal(last.s)
           /\ IsDecimal(last.s) => last.ret = DecimalValue(last.s)

\* C18's case: the content "-99" gave -99 and no error.
C18_Witness ==
    /\ last.op = "myStringToInt" /\ last.s = <<45, 57, 57>>
    /\ last.ret = -99 /\ last.ret # MYSTR_ERROR_CODE

\* The first len handles of array are different instances of different
\* contents.
DistinctContents(array, len) ==
    \A i, j \in 1..len :
        i # j => /\ array[i] # array[j]
                 /\ Content(heap, inst, array[i]) # Content(heap, inst, array[j])

\* The first len handles of array are in descending order under
\* myStringCompare.
Descending(array, len) ==
    \A i, j \in 1..len :
        i < j => \A r \in myStringCompare(Mem0, array[i], array[j]) : r >= 0

\* C19: after myStringCustomSort(arr, len, myStringCustomComparator) on an
\* array whose len handles hold distinct contents, arr holds a permutation
\* of the handles it held, the len sorted ones in descending order under
\* myStringCompare, and no instance has changed.
C19_CustomSortDescending ==
    [][ (/\ last'.op = "myStringCustomSort" /\ last'.b = CustomComparator
         /\ DistinctContents(arr, last'.a))
            => /\ IsPermutation(arr, arr')
               /\ IsPermutation(SubSeq(arr, 1, last'.a), SubSeq(arr', 1, last'.a))
               /\ heap' = heap /\ inst' = inst
               /\ Descending(arr', last'.a) ]_vars

\* Some two of the first len handles of array hold contents of the same
\* length.
SameLengths(array, len) ==
    \E i, j \in 1..len : i # j /\ myStringLen(inst, array[i]) = myStringLen(inst, array[j])

\* The statement of C19 for contents of different lengths, which
\* myStringCustomSort meets.
C19_CustomSortDescendingByLength ==
    [][ (/\ last'.op = "myStringCustomSort" /\ last'.b = CustomComparator
         /\ DistinctContents(arr, last'.a) /\ ~SameLengths(arr, last'.a))
            => /\ IsPermutation(arr, arr')
               /\ IsPermutation(SubSeq(arr, 1, last'.a), SubSeq(arr', 1, last'.a))
               /\ heap' = heap /\ inst' = inst
               /\ Descending(arr', last'.a) ]_vars

\* C19's case: three handles of distinct contents sorted to "c", "ac", "a".
C19_Witness ==
    /\ last.op = "myStringCustomSort" /\ last.a = 3 /\ last.b = CustomComparator
    /\ arr = <<2, 1, 3>>
    /\ Content(heap, inst, 1) = <<97, 99>>
    /\ Content(heap, inst, 2) = <<99>>
    /\ Content(heap, inst, 3) = <<97>>

\* The last call was myStringCompare on two strings.
ComparedStrings == last.op = "myStringCompare" /\ last.a # NULL /\ last.b # NULL

\* C20: on two strings myStringCompare returns STR1_BIGGER, STR2_BIGGER or
\* EQUAL_STRINGS and nothing else, also when they have the same length and
\* differ in a byte.
C20_ThreeResults ==
    ComparedStrings => last.ret \in {STR1_BIGGER, STR2_BIGGER, EQUAL_STRINGS}

\* The statement of C20 for strings of different lengths or of the same
\* content, which myStringCompare meets.
C20_ThreeResultsByLength ==
    (/\ ComparedStrings
     /\ \/ myStringLen(inst, last.a) # myStringLen(inst, last.b)
        \/ Content(heap, inst, last.a) = Content(heap, inst, last.b))
        => last.ret \in {STR1_BIGGER, STR2_BIGGER, EQUAL_STRINGS}

\* C20's case: "a" compared with "c" gave STR2_BIGGER.
C20_Witness ==
    /\ ComparedStrings /\ last.ret = STR2_BIGGER
    /\ Content(heap, inst, last.a) = <<97>> /\ Content(heap, inst, last.b) = <<99>>

\* C21: myStringSetFromCString(str, s) with an array s that holds no
\* terminator returns MYSTRING_ERROR and leaves the content and the length
\* of str as they were.
C21_RejectsUnterminated ==
    [][ (last'.op = "myStringSetFromCString" /\ last'.b = 2)
            => /\ ~last'.abort /\ last'.ret = MYSTRING_ERROR
               /\ Content(heap', inst', last'.a) = Content(heap, inst, last'.a)
               /\ myStringLen(inst', last'.a) = myStringLen(inst, last'.a) ]_vars

\* C21's case: the array {'a'} with no terminator was taken, with the stale
\* byte behind it, as the string "ab".
C21_Witness ==
    /\ last.op = "myStringSetFromCString" /\ last.b = 2 /\ last.s = <<97>>
    /\ last.ret = MYSTRING_SUCCESS /\ ~last.abort
    /\ Content(heap, inst, last.a) = <<97, 98>>

\* The step is a turn: a player has taken balls out of a box.
Turn == game'.turns = game.turns + 1

\* The player who is not p.
Opponent(p) == PLAYER_ONE + PLAYER_TWO - p

\* C22: the first turn is player 1's and every later turn is made by the
\* opponent of the player who made the turn before; no turn is made once a
\* box holds 0 balls; and when playGame returns, a box holds 0 balls, the
\* last turn emptied the box it took from, and the value returned is the
\* opponent of the player who made that turn.
C22_WinnerIsNextPlayer ==
    [][ /\ Turn => /\ game'.mover = IF game.turns = 0 THEN PLAYER_ONE
                                     ELSE Opponent(game.mover)
                   /\ game.numOfBallsArr[BOX_ONE] # 0 /\ game.numOfBallsArr[BOX_TWO] # 0
        /\ (game'.pc = "done" /\ game.pc # "done")
              => /\ 0 \in {game'.numOfBallsArr[BOX_ONE], game'.numOfBallsArr[BOX_TWO]}
                 /\ game'.numOfBallsArr[game'.boxNumber] = 0
                 /\ game'.mover \in {PLAYER_ONE, PLAYER_TWO}
                 /\ game'.winner = Opponent(game'.mover) ]_vars

\* C22's case: player 1 emptied a box in the third turn and player 2 won.
C22_Witness ==
    /\ game.pc = "done" /\ game.turns = 3 /\ game.mover = PLAYER_ONE
    /\ game.winner = PLAYER_TWO

\* C23: every turn takes from box 1 or box 2 a number k of balls with
\* 1 <= k <= 3 and k <= the balls in that box and leaves the other box as it
\* was; and once initializeGame has read two positive counts, no box ever
\* holds fewer than 0 balls.
C23_LegalMoves ==
    [][ /\ Turn =>
              LET boxNumber == game'.boxNumber
                  k == game'.numOfBalls
              IN  /\ boxNumber \in {BOX_ONE, BOX_TWO}
                  /\ 1 <= k /\ k <= MAX_BALL_WITHDRAWAL /\ k <= game.numOfBallsArr[boxNumber]
                  /\ game'.numOfBallsArr[boxNumber] = game.numOfBallsArr[boxNumber] - k
                  /\ \A other \in {BOX_ONE, BOX_TWO} \ {boxNumber} :
                         game'.numOfBallsArr[other] = game.numOfBallsArr[other]
        /\ game'.pc \in {"playGame", "chooseBox", "takeBalls", "done"}
              => (game'.numOfBallsArr[BOX_ONE] >= 0 /\ game'.numOfBallsArr[BOX_TWO] >= 0) ]_vars

\* C23's case: a turn that took all 3 balls of box 2 and left box 1 with 4.
C23_Witness ==
    /\ game.pc = "playGame" /\ game.turns > 0
    /\ game.boxNumber = BOX_TWO /\ game.numOfBalls = MAX_BALL_WITHDRAWAL
    /\ game.numOfBallsArr = <<4, 0>>

\* The last call was myStringCustomCompare on two strings with a comparator.
CustomCompared ==
    /\ last.op = "myStringCustomCompare"
    /\ last.a # NULL /\ last.b # NULL /\ last.c # NULL

\* The longer of the strings a and b is the bigger one.
LengthTiebreak(a, b) ==
    IF myStringLen(inst, a) > myStringLen(inst, b) THEN STR1_BIGGER
    ELSE IF myStringLen(inst, a) < myStringLen(inst, b) THEN STR2_BIGGER
    ELSE EQUAL_STRINGS

C24_WitnessEmpty ==
    /\ CustomCompared /\ last.ret = STR2_BIGGER
    /\ Content(heap, inst, last.a) = <<>> /\ Content(heap, inst, last.b) = <<97>>
    /\ \A r \in reverseMyStringCompare(Mem0, last.a, last.b) : r > 0

\* The step is a myStringFilter that returned MYSTRING_SUCCESS on a string
\* that had characters.
FilteredNonEmpty ==
    Succeeded(last', "myStringFilter") /\ myStringLen(inst, last'.a) > EMPTY_STRING_LENGTH

\* C25: when myStringFilter has succeeded on a non-empty string, the buffer
\* the string holds is an allocated block, so a later read of the string
\* reads allocated memory.
C25_FilterHandsOverLiveBuffer ==
    [][ FilteredNonEmpty
            => /\ inst'[last'.a].chars # NULL
               /\ heap'[inst'[last'.a].chars].live ]_vars

\* C25's case: "ab" was filtered with success and the string has length 1.
C25_Witness ==
    /\ Succeeded(last, "myStringFilter")
    /\ inst[last.a].alive /\ myStringLen(inst, last.a) = 1
    /\ inst[last.a].chars # NULL /\ ~heap[inst[last.a].chars].live

\* The caller holds nothing any more: every instance has been passed to
\* myStringFree and every exported buffer to free.
AllReleased(I, c) == c = NULL /\ \A i \in Inst : ~I[i].alive

\* C26: in a run of operations that all report success, a myStringFree or
\* free releases only a block that is allocated to what is released, once;
\* and when the caller has released every instance and every exported
\* buffer, no block of the heap is still allocated.
C26_EveryBlockFreedOnce ==
    [][ last'.op \in {"myStringFree", "free"}
            => /\ ~last'.abort /\ strays' = strays
               /\ AllReleased(inst', cstr') => \A a \in Addr : ~heap'[a].live ]_vars

\* The second half of C26 alone: nothing stays allocated.
C26_NothingStaysAllocated ==
    [][ (last'.op \in {"myStringFree", "free"} /\ ~last'.abort /\ AllReleased(inst', cstr'))
            => \A a \in Addr : ~heap'[a].live ]_vars

\* The first half of C26 alone: no block is freed twice.
C26_NothingFreedTwice ==
    [][ last'.op \in {"myStringFree", "free"} => (~last'.abort /\ strays' = strays) ]_vars

\* C26's case: a lifetime that ended with every block freed once.
C26_Witness ==
    /\ last.op = "myStringFree" /\ ~last.abort /\ strays = 0
    /\ AllReleased(inst, cstr) /\ \A a \in Addr : ~heap[a].live

\* The bytes sprintf(p, "%d", n) stores: the characters and the terminator.
BytesStored(n) == sprintf(heap, inst[last.a].chars, n).ret + 1

\* C27: after a successful myStringSetFromInt(str, n) every byte sprintf
\* stored lies inside the block the buffer was resized to: the number of
\* bytes stored is at most the size of the block, and nothing was stored
\* behind the block.
C27_WritesInsideBuffer ==
    Succeeded(last, "myStringSetFromInt") =>
        /\ BytesStored(last.b) <= BlockSize(heap, inst, last.a)
        /\ heap[inst[last.a].chars].stale

\* C27's case: n = -12 was set, in a block of 3 bytes.
C27_Witness ==
    /\ Succeeded(last, "myStringSetFromInt") /\ last.b = -12
    /\ BlockSize(heap, inst, last.a) = 3
    /\ Content(heap, inst, last.a) = <<45, 49, 50>>

\* What myStringToInt gives for the text s and nothing else.
ParsedFrom(s) ==
    LET numberOfDigits == sscanf(s)
    IN  IF numberOfDigits.ret <= 0 THEN MYSTR_ERROR_CODE ELSE numberOfDigits.value

\* C28: the result of myStringFilter and of myStringToInt is decided by the
\* length bytes of the content: a successful myStringFilter of a string that
\* holds a buffer of its own leaves it with as many characters as filt
\* accepts in the content, and myStringToInt returns what the content parses
\* to, whatever lies behind the buffer.
C28_ReadsInsideContent ==
    [][ /\ (Succeeded(last', "myStringFilter") /\ Owns(heap, inst, last'.a))
              => myStringLen(inst', last'.a) = Len(Passing(Content(heap, inst, last'.a)))
        /\ last'.op = "myStringToInt" => last'.ret = ParsedFrom(last'.s) ]_vars

\* The first half of C28 alone: myStringFilter.
C28_FilterReadsInsideContent ==
    [][ (Succeeded(last', "myStringFilter") /\ Owns(heap, inst, last'.a))
            => myStringLen(inst', last'.a) = Len(Passing(Content(heap, inst, last'.a))) ]_vars

\* The second half of C28 alone: myStringToInt.
C28_ToIntReadsInsideContent ==
    [][ last'.op = "myStringToInt" => last'.ret = ParsedFrom(last'.s) ]_vars

\* C28's case: the content "a9" was parsed where a terminator lay behind
\* the buffer, and gave the error code.
C28_Witness ==
    /\ last.op = "myStringToInt" /\ last.s = <<97, 57>>
    /\ last.ret = MYSTR_ERROR_CODE
    /\ heap[inst[last.a].chars].tail = <<>>

\* The step is a myStringFilter of a string of its own buffer that has
\* characters, none of which filt accepts.
FilteredEverythingOut ==
    /\ last'.op = "myStringFilter" /\ Owns(heap, inst, last'.a)
    /\ myStringLen(inst, last'.a) > EMPTY_STRING_LENGTH
    /\ Passing(Content(heap, inst, last'.a)) = <<>>

\* C29: myStringFilter of a non-empty string none of whose characters filt
\* accepts returns MYSTRING_SUCCESS and leaves the string empty, with a
\* buffer that is an allocated block, whether realloc answers the resize to
\* no bytes with NULL or with a pointer.
C29_FilterToEmpty ==
    [][ FilteredEverythingOut
            => /\ Succeeded(last', "myStringFilter")
               /\ myStringLen(inst', last'.a) = EMPTY_STRING_LENGTH
               /\ inst'[last'.a].chars # NULL
               /\ heap'[inst'[last'.a].chars].live ]_vars

\* The part of C29 the code meets: where what lies behind the buffer is
\* known to hold nothing filt accepts, a call that succeeds leaves length 0.
C29_FilterToEmptyLength ==
    [][ (/\ FilteredEverythingOut /\ Succeeded(last', "myStringFilter")
         /\ ~heap[inst[last'.a].chars].stale
         /\ getFilteredStringLength(heap, inst[last'.a].chars) = 0)
            => myStringLen(inst', last'.a) = EMPTY_STRING_LENGTH ]_vars

\* C29's case: "a" was filtered with success and the string has length 0.
C29_Witness ==
    /\ Succeeded(last, "myStringFilter")
    /\ inst[last.a].alive /\ myStringLen(inst, last.a) = EMPTY_STRING_LENGTH
    /\ inst[last.a].chars # NULL /\ ~heap[inst[last.a].chars].live

\* The balls in the two boxes.
TotalBalls(g) == g.numOfBallsArr[BOX_ONE] + g.numOfBallsArr[BOX_TWO]

\* C30: once initializeGame has read two positive counts and every prompt
\* gets in the end an answer that is accepted, playGame returns; every turn
\* leaves fewer balls in the boxes than before it; at most box1 + box2 - 1
\* turns are made; and when playGame returns a box holds exactly 0 balls.
C30_GameTerminates ==
    /\ [][Turn => TotalBalls(game') < TotalBalls(game)]_vars
    /\ [](game.pc \in {"playGame", "chooseBox", "takeBalls", "done"}
            => game.turns <= game.start - 1)
    /\ [](game.pc = "done"
            => 0 \in {game.numOfBallsArr[BOX_ONE], game.numOfBallsArr[BOX_TWO]})
    /\ (game.pc = "playGame") ~> (game.pc = "done")

\* C30's case: a game of 2 and 3 balls that took the 4 turns it can take.
C30_Witness ==
    /\ game.pc = "done" /\ game.start = 5 /\ game.turns = 4
    /\ 0 \in {game.numOfBallsArr[BOX_ONE], game.numOfBallsArr[BOX_TWO]}


=============================================================================
